---------------------------- MODULE Spec2Model ----------------------------
(***************************************************************************)
(* rxpress: a minimal synchronous HTTP/1.1 server framework.               *)
(*                                                                         *)
(* The model covers the Router (ordered route list, first-match dispatch), *)
(* Route::matches (method check, segment walk, parameter binding) and the  *)
(* Response writer (status / headers / single-send guard / serialization). *)
(*                                                                         *)
(* Strings the code takes apart character by character (method tokens,     *)
(* paths, route patterns, parameter names and values) are sequences of     *)
(* one-character strings.  Strings the code only stores, compares and      *)
(* copies to the stream (header names and values of a Response, reason     *)
(* phrases, bodies) are TLA+ strings.                                      *)
(***************************************************************************)
EXTENDS Naturals, Sequences, FiniteSets, TLC

\* The fields of the records of the model.  Every record below lists its
\* fields in this order.
FieldNames ==
    [arg |-> 0, body |-> 0, bytes |-> 0, calls |-> 0, code |-> 0,
     conn |-> 0, content |-> 0, data |-> 0, default |-> 0, e |-> 0,
     fell_through |-> 0, handler |-> 0, header_lines |-> 0, headers |-> 0,
     id |-> 0, invoked |-> 0, io |-> 0, key |-> 0, kind |-> 0, line |-> 0,
     lines |-> 0, method |-> 0, msg |-> 0, none |-> 0, ok |-> 0, op |-> 0,
     order |-> 0, params |-> 0, part |-> 0, path |-> 0, query |-> 0,
     rank |-> 0, rc |-> 0, reason |-> 0, req |-> 0, request_line |-> 0,
     res |-> 0, result |-> 0, sent |-> 0, status |-> 0, status_code |-> 0,
     status_reason |-> 0, step |-> 0, stream |-> 0, value |-> 0,
     version |-> 0, wire |-> 0]

VARIABLES
    routes,   \* Router.routes : Vec<Route>
    req,      \* the Request of the connection being served
    res,      \* the Response of the connection being served
    wire,     \* what the client sent on the connection, or what a caller
              \* passes to Request::new
    stream,   \* what Response::write_response handed to the TcpStream
    pc,       \* position of the server / of the caller
    invoked,  \* indices in routes of the routes whose handler was invoked
    calls,    \* history of the Response methods called so far
    ret,      \* return value of the last directly called function
    conn,     \* handle_connection's locals: request_line, headers, body
    log       \* the steps the accept loop has taken, oldest first

vars == <<routes, req, res, wire, stream, pc, invoked, calls, ret, conn, log>>

(***************************************************************************)
(* Bounds of the model.                                                    *)
(***************************************************************************)
MaxLen == 3      \* longest generated path / pattern, in characters
MaxRoutes == 2   \* most routes registered before the server runs
MaxCalls == 3    \* most Response method calls one handler makes

(***************************************************************************)
(* Maps (std::collections::HashMap).                                       *)
(***************************************************************************)
EmptyMap == [k \in {} |-> ""]

Insert(m, k, v) == [x \in (DOMAIN m) \cup {k} |-> IF x = k THEN v ELSE m[x]]

(***************************************************************************)
(* Option and Result values.                                               *)
(***************************************************************************)
None == [none |-> TRUE]
Some(v) == [value |-> v]
Ok(v) == [ok |-> TRUE, value |-> v]
Err(msg) == [msg |-> msg, ok |-> FALSE]

(***************************************************************************)
(* str helpers.                                                            *)
(***************************************************************************)
\* char::to_uppercase: one character may upper-case to several ("U+00DF" is
\* the one character LATIN SMALL LETTER SHARP S, whose upper case is "SS").
UpperChar(c) ==
    CASE c = "a" -> <<"A">>
      [] c = "b" -> <<"B">>
      [] c = "c" -> <<"C">>
      [] c = "d" -> <<"D">>
      [] c = "e" -> <<"E">>
      [] c = "f" -> <<"F">>
      [] c = "g" -> <<"G">>
      [] c = "h" -> <<"H">>
      [] c = "i" -> <<"I">>
      [] c = "j" -> <<"J">>
      [] c = "k" -> <<"K">>
      [] c = "l" -> <<"L">>
      [] c = "m" -> <<"M">>
      [] c = "n" -> <<"N">>
      [] c = "o" -> <<"O">>
      [] c = "p" -> <<"P">>
      [] c = "q" -> <<"Q">>
      [] c = "r" -> <<"R">>
      [] c = "s" -> <<"S">>
      [] c = "t" -> <<"T">>
      [] c = "u" -> <<"U">>
      [] c = "v" -> <<"V">>
      [] c = "w" -> <<"W">>
      [] c = "x" -> <<"X">>
      [] c = "y" -> <<"Y">>
      [] c = "z" -> <<"Z">>
      [] c = "U+00DF" -> <<"S", "S">>
      [] OTHER -> <<c>>

RECURSIVE to_uppercase(_)
to_uppercase(s) ==
    IF s = <<>> THEN <<>> ELSE UpperChar(Head(s)) \o to_uppercase(Tail(s))

\* u8::eq_ignore_ascii_case on one character: ASCII letters only.
AsciiUpperChar(c) == IF c = "U+00DF" THEN c ELSE UpperChar(c)[1]

eq_ignore_ascii_case(s, t) ==
    /\ Len(s) = Len(t)
    /\ \A i \in 1..Len(s) : AsciiUpperChar(s[i]) = AsciiUpperChar(t[i])

\* str::split(sep): always at least one segment; "" gives [""].
RECURSIVE SplitFrom(_, _, _, _)
SplitFrom(s, sep, i, cur) ==
    IF i > Len(s) THEN <<cur>>
    ELSE IF s[i] = sep THEN <<cur>> \o SplitFrom(s, sep, i + 1, <<>>)
    ELSE SplitFrom(s, sep, i + 1, Append(cur, s[i]))

Split(s, sep) == SplitFrom(s, sep, 1, <<>>)

starts_with(s, c) == Len(s) > 0 /\ s[1] = c

\* str::trim_start_matches(c): removes every leading occurrence of c.
RECURSIVE trim_start_matches(_, _)
trim_start_matches(s, c) ==
    IF starts_with(s, c) THEN trim_start_matches(Tail(s), c) ELSE s

\* char::is_whitespace, for the characters a line here is made of.
IsWhitespace(c) == c \in {" ", "\t"}

\* str::split_whitespace: the maximal runs of non-whitespace characters.
RECURSIVE SplitWhitespaceFrom(_, _, _)
SplitWhitespaceFrom(s, i, cur) ==
    IF i > Len(s) THEN (IF cur = <<>> THEN <<>> ELSE <<cur>>)
    ELSE IF IsWhitespace(s[i])
         THEN (IF cur = <<>> THEN <<>> ELSE <<cur>>)
              \o SplitWhitespaceFrom(s, i + 1, <<>>)
         ELSE SplitWhitespaceFrom(s, i + 1, Append(cur, s[i]))

split_whitespace(s) == SplitWhitespaceFrom(s, 1, <<>>)

\* Mutant: the text is cut at the last c (rsplit_once), not the first.
split_once_at_last(s, c) ==
    LET hits == {i \in 1..Len(s) : s[i] = c}
    IN IF hits = {} THEN None
       ELSE LET i == CHOOSE h \in hits : \A g \in hits : h >= g
            IN Some(<<SubSeq(s, 1, i - 1), SubSeq(s, i + 1, Len(s))>>)

\* str::split_once(c): the text before and after the first c, if any.
split_once(s, c) ==
    LET hits == {i \in 1..Len(s) : s[i] = c}
    IN IF hits = {} THEN None
       ELSE LET i == CHOOSE h \in hits : \A g \in hits : h <= g
            IN Some(<<SubSeq(s, 1, i - 1), SubSeq(s, i + 1, Len(s))>>)

\* str::trim: without leading and trailing whitespace.
RECURSIVE trim_start(_)
trim_start(s) ==
    IF s # <<>> /\ IsWhitespace(Head(s)) THEN trim_start(Tail(s)) ELSE s

RECURSIVE trim_end(_)
trim_end(s) ==
    IF s # <<>> /\ IsWhitespace(s[Len(s)])
    THEN trim_end(SubSeq(s, 1, Len(s) - 1)) ELSE s

trim(s) == trim_end(trim_start(s))

\* u8::to_ascii_lowercase and str::to_ascii_lowercase.
AsciiLowerChar(c) ==
    CASE c = "A" -> "a"
      [] c = "B" -> "b"
      [] c = "C" -> "c"
      [] c = "D" -> "d"
      [] c = "E" -> "e"
      [] c = "F" -> "f"
      [] c = "G" -> "g"
      [] c = "H" -> "h"
      [] c = "I" -> "i"
      [] c = "J" -> "j"
      [] c = "K" -> "k"
      [] c = "L" -> "l"
      [] c = "M" -> "m"
      [] c = "N" -> "n"
      [] c = "O" -> "o"
      [] c = "P" -> "p"
      [] c = "Q" -> "q"
      [] c = "R" -> "r"
      [] c = "S" -> "s"
      [] c = "T" -> "t"
      [] c = "U" -> "u"
      [] c = "V" -> "v"
      [] c = "W" -> "w"
      [] c = "X" -> "x"
      [] c = "Y" -> "y"
      [] c = "Z" -> "z"
      [] OTHER -> c

to_ascii_lowercase(s) == [i \in 1..Len(s) |-> AsciiLowerChar(s[i])]

(***************************************************************************)
(* Request.                                                                *)
(***************************************************************************)
HTTP11 == <<"H", "T", "T", "P", "/", "1", ".", "1">>

\* The Request that Request::new builds from a three-token request line
\* `method path HTTP/1.1` without query string: params starts empty.
NewRequest(method, path) ==
    [body |-> "", headers |-> EmptyMap, method |-> method,
     params |-> EmptyMap, path |-> path, query |-> EmptyMap,
     version |-> HTTP11]

\* Request::parse_query from piece i on: one insert per `&`-separated piece.
RECURSIVE ParseQueryFrom(_, _, _)
ParseQueryFrom(pieces, i, map) ==
    IF i > Len(pieces) THEN map
    ELSE LET kv == split_once(pieces[i], "=")
         IN ParseQueryFrom(pieces, i + 1,
                IF kv # None THEN Insert(map, kv.value[1], kv.value[2])
                ELSE Insert(map, pieces[i], <<>>))

parse_query(q) == ParseQueryFrom(Split(q, "&"), 1, EmptyMap)

\* Mutant: the raw target is not split at `?`.
Request_new_query_in_path(request_line, headers, body) ==
    LET parts == split_whitespace(request_line)
        three == Len(parts) = 3
    IN [body |-> body, headers |-> headers,
        method |-> IF three THEN parts[1] ELSE <<"G", "E", "T">>,
        params |-> EmptyMap,
        path |-> IF three THEN parts[2] ELSE <<"/">>,
        query |-> EmptyMap,
        version |-> IF three THEN parts[3] ELSE HTTP11]

\* Mutant: a short request line keeps the tokens it has.
Request_new_keeps_tokens(request_line, headers, body) ==
    LET parts == split_whitespace(request_line)
        full_path == IF Len(parts) >= 2 THEN parts[2] ELSE <<"/">>
        cut == split_once(full_path, "?")
    IN [body |-> body, headers |-> headers,
        method |-> IF Len(parts) >= 1 THEN parts[1] ELSE <<"G", "E", "T">>,
        params |-> EmptyMap,
        path |-> IF cut # None THEN cut.value[1] ELSE full_path,
        query |-> IF cut # None THEN parse_query(cut.value[2]) ELSE EmptyMap,
        version |-> IF Len(parts) >= 3 THEN parts[3] ELSE HTTP11]

\* Request::new
Request_new(request_line, headers, body) ==
    LET parts == split_whitespace(request_line)
        three == Len(parts) = 3
        full_path == IF three THEN parts[2] ELSE <<"/">>
        cut == split_once(full_path, "?")
    IN [body |-> body, headers |-> headers,
        method |-> IF three THEN parts[1] ELSE <<"G", "E", "T">>,
        params |-> EmptyMap,
        path |-> IF cut # None THEN cut.value[1] ELSE full_path,
        query |-> IF cut # None THEN parse_query(cut.value[2]) ELSE EmptyMap,
        version |-> IF three THEN parts[3] ELSE HTTP11]

\* One item of the line iterator of the connection: a line or a read error.
Line_Ok(line) == [line |-> line, ok |-> TRUE]
Line_Err == [line |-> <<>>, ok |-> FALSE]

\* Mutant: a line without `:` ends the headers.
RECURSIVE GetHeadersFrom_stop_at_malformed(_, _, _)
GetHeadersFrom_stop_at_malformed(lines, i, map) ==
    IF i > Len(lines) THEN map
    ELSE IF ~lines[i].ok THEN map
    ELSE IF lines[i].line = <<>> THEN map
    ELSE LET kv == split_once(lines[i].line, ":")
         IN IF kv = None THEN map
            ELSE GetHeadersFrom_stop_at_malformed(lines, i + 1,
                     Insert(map, to_ascii_lowercase(trim(kv.value[1])),
                            trim(kv.value[2])))

\* get_headers from line i on: stops at the first empty line, at a read
\* error and at the end of the stream; a line without `:` is skipped.
RECURSIVE GetHeadersFrom(_, _, _)
GetHeadersFrom(lines, i, map) ==
    IF i > Len(lines) THEN map
    ELSE IF ~lines[i].ok THEN map
    ELSE IF lines[i].line = <<>> THEN map
    ELSE LET kv == split_once(lines[i].line, ":")
         IN GetHeadersFrom(lines, i + 1,
                IF kv # None
                THEN Insert(map, to_ascii_lowercase(trim(kv.value[1])),
                            trim(kv.value[2]))
                ELSE map)

get_headers(lines) == GetHeadersFrom(lines, 1, EmptyMap)

\* get_request_line: the first item of the line iterator.  No item: the
\* client disconnected before sending a line.
get_request_line(lines) ==
    IF lines = <<>> THEN Err("no request line")
    ELSE IF lines[1].ok THEN Ok(lines[1].line)
    ELSE Err("failed to read request line")

\* The items get_headers takes from the iterator: up to and including the
\* first empty line or read error, or all of them.
HeaderStops(lines) ==
    {i \in 1..Len(lines) : ~lines[i].ok \/ lines[i].line = <<>>}

get_headers_consumed(lines) ==
    IF HeaderStops(lines) = {} THEN Len(lines)
    ELSE CHOOSE i \in HeaderStops(lines) : \A j \in HeaderStops(lines) : i <= j

\* str::parse::<usize>: an optional `+`, then one or more ASCII digits, no
\* other character; a value above usize::MAX (64 bit) is an error.
DigitSeq == <<"0", "1", "2", "3", "4", "5", "6", "7", "8", "9">>

DigitValue(c) == (CHOOSE i \in 1..Len(DigitSeq) : DigitSeq[i] = c) - 1

UsizeMaxDigits ==
    <<"1", "8", "4", "4", "6", "7", "4", "4", "0", "7",
      "3", "7", "0", "9", "5", "5", "1", "6", "1", "5">>

RECURSIVE StripZeros(_)
StripZeros(d) ==
    IF Len(d) > 1 /\ d[1] = "0" THEN StripZeros(Tail(d)) ELSE d

RECURSIVE DecimalValue(_, _)
DecimalValue(d, acc) ==
    IF d = <<>> THEN acc
    ELSE DecimalValue(Tail(d), 10 * acc + DigitValue(d[1]))

\* A value of ten digits or more is a length no stream of the model holds:
\* it is kept as the largest number the checker counts with.
parse_usize(s) ==
    LET d == IF s # <<>> /\ s[1] = "+" THEN Tail(s) ELSE s
        z == StripZeros(d)
        max == UsizeMaxDigits
    IN IF d = <<>> \/ (\E i \in 1..Len(d) : \A n \in 1..Len(DigitSeq) : DigitSeq[n] # d[i])
       THEN Err("invalid digit found in string")
       ELSE IF \/ Len(z) > Len(max)
               \/ /\ Len(z) = Len(max)
                  /\ \E i \in 1..Len(z) :
                        /\ \A j \in 1..(i - 1) : z[j] = max[j]
                        /\ DigitValue(z[i]) > DigitValue(max[i])
       THEN Err("number too large to fit in target type")
       ELSE IF Len(z) > 9 THEN Ok(2147483647)
       ELSE Ok(DecimalValue(z, 0))

\* The unread input of a connection is w = [bytes, lines]: the line items
\* the iterator has not delivered and the bytes that follow them.  A read of
\* raw bytes sees the lines as their text, each ended by CRLF; nothing is
\* delivered past a read error.
RECURSIVE LineBytes(_)
LineBytes(lines) ==
    IF lines = <<>> THEN <<>>
    ELSE IF ~lines[1].ok THEN <<>>
    ELSE lines[1].line \o <<"\r", "\n">> \o LineBytes(Tail(lines))

Unread(w) ==
    LineBytes(w.lines)
    \o (IF \A i \in 1..Len(w.lines) : w.lines[i].ok THEN w.bytes ELSE <<>>)

\* String::from_utf8_lossy: a byte that is no valid UTF-8 ("0xFF") becomes
\* U+FFFD.
from_utf8_lossy(buffer) ==
    [i \in 1..Len(buffer) |-> IF buffer[i] = "0xFF" THEN "U+FFFD" ELSE buffer[i]]

ContentLengthKey ==
    <<"c", "o", "n", "t", "e", "n", "t", "-", "l", "e", "n", "g", "t", "h">>

\* Mutant: a failed body read yields an empty body.
get_body_lenient(headers, w) ==
    IF ContentLengthKey \in DOMAIN headers /\ parse_usize(headers[ContentLengthKey]).ok
    THEN LET size == parse_usize(headers[ContentLengthKey]).value
             avail == Unread(w)
         IN IF size <= Len(avail)
            THEN [result |-> Ok(from_utf8_lossy(SubSeq(avail, 1, size))),
                  wire |-> [bytes |-> SubSeq(avail, size + 1, Len(avail)),
                            lines |-> <<>>]]
            ELSE [result |-> Ok(<<>>), wire |-> [bytes |-> <<>>, lines |-> <<>>]]
    ELSE [result |-> Ok(<<>>), wire |-> w]

\* Mutant: the body is whatever the stream still holds, whatever the
\* content-length header says.
get_body_greedy(headers, w) ==
    [result |-> Ok(from_utf8_lossy(Unread(w))),
     wire |-> [bytes |-> <<>>, lines |-> <<>>]]

\* get_body: read_exact of `size` bytes when the content-length header is
\* there and parses, else no read.  The result and the unread input left.
get_body(headers, w) ==
    IF ContentLengthKey \in DOMAIN headers /\ parse_usize(headers[ContentLengthKey]).ok
    THEN LET size == parse_usize(headers[ContentLengthKey]).value
             avail == Unread(w)
         IN IF size <= Len(avail)
            THEN [result |-> Ok(from_utf8_lossy(SubSeq(avail, 1, size))),
                  wire |-> [bytes |-> SubSeq(avail, size + 1, Len(avail)),
                            lines |-> <<>>]]
            ELSE [result |-> Err("failed to read body"),
                  wire |-> [bytes |-> <<>>, lines |-> <<>>]]
    ELSE [result |-> Ok(<<>>), wire |-> w]

\* The text of an error message is the sequence of its pieces: fixed texts
\* and the characters of the key; "U+0060" is the one character GRAVE
\* ACCENT.
Backtick == "U+0060"

\* Request::header: the first entry, in the map's iteration order `order`,
\* whose key equals `key` ignoring ASCII case.
Request_header(rq, key, order) ==
    LET hits == SelectSeq(order, LAMBDA k : eq_ignore_ascii_case(k, key))
    IN IF hits = <<>> THEN None ELSE Some(rq.headers[hits[1]])

\* Request::header_or: HashMap::get with the key as it is written.
Request_header_or(rq, key, default) ==
    IF key \in DOMAIN rq.headers THEN rq.headers[key] ELSE default

\* Request::header_expect: HashMap::get with the key as it is written.
Request_header_expect(rq, key) ==
    IF key \in DOMAIN rq.headers THEN Ok(rq.headers[key])
    ELSE Err(<<"[rxpress error]: Required header ", Backtick>> \o key
             \o <<Backtick, " is missing. Please include it in your request, e.g., ",
                  Backtick>> \o key \o <<": value", Backtick, ".">>)

\* Request::param
Request_param(rq, key) ==
    IF key \in DOMAIN rq.params THEN Some(rq.params[key]) ELSE None

\* Request::param_or
Request_param_or(rq, key, default) ==
    IF key \in DOMAIN rq.params THEN rq.params[key] ELSE default

\* Request::param_expect
Request_param_expect(rq, key) ==
    IF key \in DOMAIN rq.params THEN Ok(rq.params[key])
    ELSE Err(<<"[rxpress error]: Required route parameter ", Backtick>> \o key
             \o <<Backtick, " is missing. Ensure your route includes it, e.g., ",
                  Backtick, "/route/:">> \o key \o <<Backtick, ".">>)

\* Request::query
Request_query(rq, key) ==
    IF key \in DOMAIN rq.query THEN Some(rq.query[key]) ELSE None

\* Mutant: query_or always hands out the default.
Request_query_or_default(rq, key, default) == default

\* Request::query_or
Request_query_or(rq, key, default) ==
    IF key \in DOMAIN rq.query THEN rq.query[key] ELSE default

\* Request::query_expect
Request_query_expect(rq, key) ==
    IF key \in DOMAIN rq.query THEN Ok(rq.query[key])
    ELSE Err(<<"[rxpress error]: Required query parameter ", Backtick>> \o key
             \o <<Backtick, " is missing. Please include it in your request, e.g., ",
                  Backtick, "/route?">> \o key \o <<"=value", Backtick, ".">>)

(***************************************************************************)
(* Route.                                                                  *)
(***************************************************************************)
Route_new(method, path, handler) ==
    [handler |-> handler, method |-> method, path |-> path]

\* Mutant: the method compared as sent, not upper-cased.
MethodCheck_exact(route, rq) == route.method = rq.method

\* Mutant: a route matches HTTP/1.1 requests only.
MethodCheck_http11_only(route, rq) ==
    route.method = to_uppercase(rq.method) /\ rq.version = HTTP11

\* The method check of Route::matches.
MethodCheck(route, rq) == route.method = to_uppercase(rq.method)

\* Mutant: a parameter is bound even when the request segment is empty.
RECURSIVE WalkSegments_bind_empty(_, _, _, _)
WalkSegments_bind_empty(route_parts, req_parts, i, rq) ==
    IF i > Len(route_parts) THEN [ok |-> TRUE, req |-> rq]
    ELSE LET r == route_parts[i]
             p == req_parts[i]
         IN IF starts_with(r, ":")
            THEN WalkSegments_bind_empty(route_parts, req_parts, i + 1,
                     [rq EXCEPT !.params =
                          Insert(@, trim_start_matches(r, ":"), p)])
            ELSE IF r # p THEN [ok |-> FALSE, req |-> rq]
            ELSE WalkSegments_bind_empty(route_parts, req_parts, i + 1, rq)

\* The zip loop of Route::matches from position i on: the result and the
\* Request as the loop leaves it.
RECURSIVE WalkSegments(_, _, _, _)
WalkSegments(route_parts, req_parts, i, rq) ==
    IF i > Len(route_parts) THEN [ok |-> TRUE, req |-> rq]
    ELSE LET r == route_parts[i]
             p == req_parts[i]
         IN IF starts_with(r, ":")
            THEN LET key == trim_start_matches(r, ":")
                     rq2 == IF p # <<>>
                            THEN [rq EXCEPT !.params = Insert(@, key, p)]
                            ELSE rq
                 IN WalkSegments(route_parts, req_parts, i + 1, rq2)
            ELSE IF r # p THEN [ok |-> FALSE, req |-> rq]
            ELSE WalkSegments(route_parts, req_parts, i + 1, rq)

\* Mutant: no comparison of the segment counts; zip stops at the shorter list.
Matches_no_count_check(route, rq) ==
    IF ~MethodCheck(route, rq) THEN [ok |-> FALSE, req |-> rq]
    ELSE LET route_parts == Split(route.path, "/")
             req_parts == Split(rq.path, "/")
             n == IF Len(route_parts) < Len(req_parts)
                  THEN Len(route_parts) ELSE Len(req_parts)
         IN WalkSegments(SubSeq(route_parts, 1, n), SubSeq(req_parts, 1, n), 1, rq)

\* Mutant: the method is upper-cased in place, in the Request, before the
\* comparison.
Matches_uppercases_in_place(route, rq) ==
    LET up == [rq EXCEPT !.method = to_uppercase(@)]
    IN IF route.method # up.method THEN [ok |-> FALSE, req |-> up]
       ELSE LET route_parts == Split(route.path, "/")
                req_parts == Split(up.path, "/")
            IN IF Len(route_parts) # Len(req_parts)
               THEN [ok |-> FALSE, req |-> up]
               ELSE WalkSegments(route_parts, req_parts, 1, up)

\* Route::matches(&self, req: &mut Request) -> bool, with its effect on req.
Matches(route, rq) ==
    IF ~MethodCheck(route, rq) THEN [ok |-> FALSE, req |-> rq]
    ELSE LET route_parts == Split(route.path, "/")
             req_parts == Split(rq.path, "/")
         IN IF Len(route_parts) # Len(req_parts)
            THEN [ok |-> FALSE, req |-> rq]
            ELSE WalkSegments(route_parts, req_parts, 1, rq)

(***************************************************************************)
(* HttpStatus.                                                             *)
(***************************************************************************)
\* HttpStatus::code: the discriminant of the enum value.
HttpStatus_code(e) ==
    CASE e = "Continue" -> 100
      [] e = "SwitchingProtocols" -> 101
      [] e = "Processing" -> 102
      [] e = "EarlyHints" -> 103
      [] e = "OK" -> 200
      [] e = "Created" -> 201
      [] e = "Accepted" -> 202
      [] e = "NonAuthoritativeInformation" -> 203
      [] e = "NoContent" -> 204
      [] e = "ResetContent" -> 205
      [] e = "PartialContent" -> 206
      [] e = "MultiStatus" -> 207
      [] e = "AlreadyReported" -> 208
      [] e = "ImUsed" -> 226
      [] e = "MultipleChoices" -> 300
      [] e = "MovedPermanently" -> 301
      [] e = "Found" -> 302
      [] e = "SeeOther" -> 303
      [] e = "NotModified" -> 304
      [] e = "UseProxy" -> 305
      [] e = "TemporaryRedirect" -> 307
      [] e = "PermanentRedirect" -> 308
      [] e = "BadRequest" -> 400
      [] e = "Unauthorized" -> 401
      [] e = "PaymentRequired" -> 402
      [] e = "Forbidden" -> 403
      [] e = "NotFound" -> 404
      [] e = "MethodNotAllowed" -> 405
      [] e = "NotAcceptable" -> 406
      [] e = "ProxyAuthenticationRequired" -> 407
      [] e = "RequestTimeout" -> 408
      [] e = "Conflict" -> 409
      [] e = "Gone" -> 410
      [] e = "LengthRequired" -> 411
      [] e = "PreconditionFailed" -> 412
      [] e = "PayloadTooLarge" -> 413
      [] e = "UriTooLong" -> 414
      [] e = "UnsupportedMediaType" -> 415
      [] e = "RangeNotSatisfiable" -> 416
      [] e = "ExpectationFailed" -> 417
      [] e = "ImATeapot" -> 418
      [] e = "MisdirectedRequest" -> 421
      [] e = "UnprocessableEntity" -> 422
      [] e = "Locked" -> 423
      [] e = "FailedDependency" -> 424
      [] e = "TooEarly" -> 425
      [] e = "UpgradeRequired" -> 426
      [] e = "PreconditionRequired" -> 428
      [] e = "TooManyRequests" -> 429
      [] e = "RequestHeaderFieldsTooLarge" -> 431
      [] e = "UnavailableForLegalReasons" -> 451
      [] e = "InternalServerError" -> 500
      [] e = "NotImplemented" -> 501
      [] e = "BadGateway" -> 502
      [] e = "ServiceUnavailable" -> 503
      [] e = "GatewayTimeout" -> 504
      [] e = "HttpVersionNotSupported" -> 505
      [] e = "VariantAlsoNegotiates" -> 506
      [] e = "InsufficientStorage" -> 507
      [] e = "LoopDetected" -> 508
      [] e = "NotExtended" -> 510
      [] e = "NetworkAuthenticationRequired" -> 511

\* HttpStatus::reason: the fixed table; an unknown code has the empty reason.
HttpStatus_reason(code) ==
    CASE code = 100 -> "Continue"
      [] code = 101 -> "Switching Protocols"
      [] code = 102 -> "Processing"
      [] code = 103 -> "Early Hints"
      [] code = 200 -> "OK"
      [] code = 201 -> "Created"
      [] code = 202 -> "Accepted"
      [] code = 203 -> "Non-Authoritative Information"
      [] code = 204 -> "No Content"
      [] code = 205 -> "Reset Content"
      [] code = 206 -> "Partial Content"
      [] code = 207 -> "Multi-Status"
      [] code = 208 -> "Already Reported"
      [] code = 226 -> "IM Used"
      [] code = 300 -> "Multiple Choices"
      [] code = 301 -> "Moved Permanently"
      [] code = 302 -> "Found"
      [] code = 303 -> "See Other"
      [] code = 304 -> "Not Modified"
      [] code = 305 -> "Use Proxy"
      [] code = 307 -> "Temporary Redirect"
      [] code = 308 -> "Permanent Redirect"
      [] code = 400 -> "Bad Request"
      [] code = 401 -> "Unauthorized"
      [] code = 402 -> "Payment Required"
      [] code = 403 -> "Forbidden"
      [] code = 404 -> "Not Found"
      [] code = 405 -> "Method Not Allowed"
      [] code = 406 -> "Not Acceptable"
      [] code = 407 -> "Proxy Authentication Required"
      [] code = 408 -> "Request Timeout"
      [] code = 409 -> "Conflict"
      [] code = 410 -> "Gone"
      [] code = 411 -> "Length Required"
      [] code = 412 -> "Precondition Failed"
      [] code = 413 -> "Payload Too Large"
      [] code = 414 -> "URI Too Long"
      [] code = 415 -> "Unsupported Media Type"
      [] code = 416 -> "Range Not Satisfiable"
      [] code = 417 -> "Expectation Failed"
      [] code = 418 -> "I'm a Teapot"
      [] code = 421 -> "Misdirected Request"
      [] code = 422 -> "Unprocessable Entity"
      [] code = 423 -> "Locked"
      [] code = 424 -> "Failed Dependency"
      [] code = 425 -> "Too Early"
      [] code = 426 -> "Upgrade Required"
      [] code = 428 -> "Precondition Required"
      [] code = 429 -> "Too Many Requests"
      [] code = 431 -> "Request Header Fields Too Large"
      [] code = 451 -> "Unavailable For Legal Reasons"
      [] code = 500 -> "Internal Server Error"
      [] code = 501 -> "Not Implemented"
      [] code = 502 -> "Bad Gateway"
      [] code = 503 -> "Service Unavailable"
      [] code = 504 -> "Gateway Timeout"
      [] code = 505 -> "HTTP Version Not Supported"
      [] code = 506 -> "Variant Also Negotiates"
      [] code = 507 -> "Insufficient Storage"
      [] code = 508 -> "Loop Detected"
      [] code = 510 -> "Not Extended"
      [] code = 511 -> "Network Authentication Required"
      [] OTHER -> ""

(***************************************************************************)
(* StatusArg: the three shapes Response::status accepts.                   *)
(***************************************************************************)
StatusArg_Enum(e) == [e |-> e, kind |-> "Enum"]
StatusArg_Code(code) == [code |-> code, kind |-> "Code"]
StatusArg_CodeReason(code, reason) ==
    [code |-> code, kind |-> "CodeReason", reason |-> reason]

(***************************************************************************)
(* Response.                                                               *)
(***************************************************************************)
\* Mutant: a new Response starts without the header.
Response_new_bare ==
    [headers |-> EmptyMap,
     sent |-> FALSE,
     status |-> "OK",
     status_code |-> 200,
     status_reason |-> "OK"]

Response_new ==
    [headers |-> Insert(EmptyMap, "HTTP-Server-Powered-By", "rxpress"),
     sent |-> FALSE,
     status |-> "OK",
     status_code |-> 200,
     status_reason |-> "OK"]

\* Mutant: status ignored once the Response is sent.
Response_status_guarded(r, arg) ==
    IF r.sent THEN r
    ELSE CASE arg.kind = "Enum" ->
                [r EXCEPT !.status = arg.e,
                          !.status_code = HttpStatus_code(arg.e),
                          !.status_reason = HttpStatus_reason(HttpStatus_code(arg.e))]
           [] arg.kind = "Code" ->
                [r EXCEPT !.status_code = arg.code,
                          !.status_reason = HttpStatus_reason(arg.code)]
           [] arg.kind = "CodeReason" ->
                [r EXCEPT !.status_code = arg.code,
                          !.status_reason = arg.reason]

\* Mutant: a bare numeric code keeps the reason stored before.
Response_status_keeps_reason(r, arg) ==
    CASE arg.kind = "Enum" ->
           [r EXCEPT !.status = arg.e,
                     !.status_code = HttpStatus_code(arg.e),
                     !.status_reason = HttpStatus_reason(HttpStatus_code(arg.e))]
      [] arg.kind = "Code" -> [r EXCEPT !.status_code = arg.code]
      [] arg.kind = "CodeReason" ->
           [r EXCEPT !.status_code = arg.code,
                     !.status_reason = arg.reason]

\* Response::status: no look at `sent`.
Response_status(r, arg) ==
    CASE arg.kind = "Enum" ->
           [r EXCEPT !.status = arg.e,
                     !.status_code = HttpStatus_code(arg.e),
                     !.status_reason = HttpStatus_reason(HttpStatus_code(arg.e))]
      [] arg.kind = "Code" ->
           [r EXCEPT !.status_code = arg.code,
                     !.status_reason = HttpStatus_reason(arg.code)]
      [] arg.kind = "CodeReason" ->
           [r EXCEPT !.status_code = arg.code,
                     !.status_reason = arg.reason]

\* Mutant: set_header stores the key under one spelling per header name.
Response_set_header_folded(r, key, value) ==
    [r EXCEPT !.headers =
        Insert(@, IF key = "content-type" THEN "Content-Type" ELSE key, value)]

\* Response::set_header: no look at `sent`.
Response_set_header(r, key, value) ==
    [r EXCEPT !.headers = Insert(@, key, value)]

\* HashMap iteration order is unspecified: `rank` is one enumeration of keys
\* a Response may hold, and a map iterates over its keys in that order.
Orders(S) ==
    {o \in [1..Cardinality(S) -> S] : \A i, j \in DOMAIN o : i # j => o[i] # o[j]}

IterOrder(m, rank) == SelectSeq(rank, LAMBDA k : k \in DOMAIN m)

\* Mutant: the Content-Length line comes right after the status line.
HeaderBlock_length_first(r, msg, rank) ==
    LET order == IterOrder(r.headers, rank)
        joined == IF order = <<>> THEN << <<>> >>
                  ELSE [i \in 1..Len(order) |-> <<order[i], r.headers[order[i]]>>]
    IN <<  <<"HTTP/1.1", ToString(r.status_code), r.status_reason>>,
           <<"Content-Length", ToString(Len(msg))>>  >>
       \o joined
       \o <<  <<>>  >>

\* The text write_response formats, as its lines (the text between CRLFs):
\* a status line <<version, code, reason>>, the `Key: Value` lines <<k, v>>
\* in the map's iteration order (joining no line gives one empty line),
\* the Content-Length line and the empty line that ends the block.
HeaderBlock(r, msg, rank) ==
    LET order == IterOrder(r.headers, rank)
        joined == IF order = <<>> THEN << <<>> >>
                  ELSE [i \in 1..Len(order) |-> <<order[i], r.headers[order[i]]>>]
    IN <<  <<"HTTP/1.1", ToString(r.status_code), r.status_reason>>  >>
       \o joined
       \o <<  <<"Content-Length", ToString(Len(msg))>>, <<>>  >>

\* The outcomes of the three stream operations of one write_response: the
\* step that fails, if any.
IoOutcomes == {"none", "head", "body", "flush"}

\* Mutant: write_response goes on to the next stream operation after a
\* failed one.
write_response_no_stop(r, msg, env) ==
    << [data |-> HeaderBlock(r, msg, env.rank), ok |-> env.io # "head",
        op |-> "write_all", part |-> "head"],
       [data |-> msg, ok |-> env.io # "body",
        op |-> "write_all", part |-> "body"],
       [data |-> "", ok |-> env.io # "flush",
        op |-> "flush", part |-> "flush"] >>

\* Response::write_response: what it hands to the stream.  A failed step
\* ends it.  env = [io, rank] is what the environment decides.
write_response(r, msg, env) ==
    LET head == [data |-> HeaderBlock(r, msg, env.rank), ok |-> env.io # "head",
                 op |-> "write_all", part |-> "head"]
        body == [data |-> msg, ok |-> env.io # "body",
                 op |-> "write_all", part |-> "body"]
        flush == [data |-> "", ok |-> env.io # "flush",
                  op |-> "flush", part |-> "flush"]
    IN CASE env.io = "head" -> <<head>>
         [] env.io = "body" -> <<head, body>>
         [] OTHER -> <<head, body, flush>>

\* std::fs::read_to_string on the file system the server runs on.
fs_read_to_string(path) ==
    IF path = "index.html" THEN [content |-> "<h1>Hello</h1>", ok |-> TRUE]
    ELSE [content |-> "", ok |-> FALSE]

\* The methods below act on rc = [res, stream]: a Response and the stream
\* it owns.
Rc_status(rc, arg) == [rc EXCEPT !.res = Response_status(@, arg)]

Rc_set_header(rc, key, value) ==
    [rc EXCEPT !.res = Response_set_header(@, key, value)]

Rc_write(rc, msg, env) ==
    [rc EXCEPT !.stream = @ \o write_response(rc.res, msg, env)]

\* Mutant: send without the `sent` guard.
Response_send_unguarded(rc, msg, env) ==
    LET rc1 == [rc EXCEPT !.res.sent = TRUE]
        rc2 == Rc_set_header(rc1, "Content-Type", "text/plain")
    IN Rc_write(rc2, msg, env)

\* Mutant: send keeps a Content-Type the handler stored before.
Response_send_keeps_type(rc, msg, env) ==
    IF rc.res.sent THEN rc
    ELSE LET rc1 == [rc EXCEPT !.res.sent = TRUE]
             rc2 == IF "Content-Type" \in DOMAIN rc1.res.headers THEN rc1
                    ELSE Rc_set_header(rc1, "Content-Type", "text/plain")
         IN Rc_write(rc2, msg, env)

\* Mutant: `sent` is set after the write, and only when the write succeeded.
Response_send_marks_on_success(rc, msg, env) ==
    IF rc.res.sent THEN rc
    ELSE LET rc1 == Rc_set_header(rc, "Content-Type", "text/plain")
             rc2 == Rc_write(rc1, msg, env)
         IN [rc2 EXCEPT !.res.sent = (env.io = "none")]

\* Response::send
Response_send(rc, msg, env) ==
    IF rc.res.sent THEN rc
    ELSE LET rc1 == [rc EXCEPT !.res.sent = TRUE]
             rc2 == Rc_set_header(rc1, "Content-Type", "text/plain")
         IN Rc_write(rc2, msg, env)

\* Mutant: json without the `sent` guard.
Response_json_unguarded(rc, msg, env) ==
    LET rc1 == [rc EXCEPT !.res.sent = TRUE]
        rc2 == Rc_set_header(rc1, "Content-Type", "application/json")
    IN Rc_write(rc2, msg, env)

\* Response::json
Response_json(rc, msg, env) ==
    IF rc.res.sent THEN rc
    ELSE LET rc1 == [rc EXCEPT !.res.sent = TRUE]
             rc2 == Rc_set_header(rc1, "Content-Type", "application/json")
         IN Rc_write(rc2, msg, env)

\* Mutant: html sets its Content-Type before it looks at `sent`.
Response_html_header_first(rc, body, env) ==
    LET rc0 == Rc_set_header(rc, "Content-Type", "text/html; charset=utf-8")
    IN IF rc.res.sent THEN rc0
       ELSE Rc_write([rc0 EXCEPT !.res.sent = TRUE], body, env)

\* Response::html
Response_html(rc, body, env) ==
    IF rc.res.sent THEN rc
    ELSE LET rc1 == [rc EXCEPT !.res.sent = TRUE]
             rc2 == Rc_set_header(rc1, "Content-Type", "text/html; charset=utf-8")
         IN Rc_write(rc2, body, env)

\* The body html_file generates for a path it cannot read.
NoFileBody(path) ==
    "<h2>Internal Server Error</h2>\n<p>No file found on " \o path \o "</p>"

\* Mutant: html_file writes without marking the Response as sent.
Response_html_file_unmarked(rc, path, env) ==
    IF rc.res.sent THEN rc
    ELSE LET rc2 == Rc_set_header(rc, "Content-Type", "text/html; charset=utf-8")
             file == fs_read_to_string(path)
         IN IF file.ok THEN Rc_write(rc2, file.content, env)
            ELSE Rc_write(Rc_status(rc2, StatusArg_Enum("InternalServerError")),
                          NoFileBody(path), env)

\* Mutant: html_file sends its error body under the status set before.
Response_html_file_keep_status(rc, path, env) ==
    IF rc.res.sent THEN rc
    ELSE LET rc1 == [rc EXCEPT !.res.sent = TRUE]
             rc2 == Rc_set_header(rc1, "Content-Type", "text/html; charset=utf-8")
             file == fs_read_to_string(path)
         IN IF file.ok THEN Rc_write(rc2, file.content, env)
            ELSE Rc_write(rc2, NoFileBody(path), env)

\* Mutant: html_file writes its error body first and overrides the status
\* afterwards.
Response_html_file_late_status(rc, path, env) ==
    IF rc.res.sent THEN rc
    ELSE LET rc1 == [rc EXCEPT !.res.sent = TRUE]
             rc2 == Rc_set_header(rc1, "Content-Type", "text/html; charset=utf-8")
             file == fs_read_to_string(path)
         IN IF file.ok THEN Rc_write(rc2, file.content, env)
            ELSE Rc_status(Rc_write(rc2, NoFileBody(path), env),
                           StatusArg_Enum("InternalServerError"))

\* Response::html_file
Response_html_file(rc, path, env) ==
    IF rc.res.sent THEN rc
    ELSE LET rc1 == [rc EXCEPT !.res.sent = TRUE]
             rc2 == Rc_set_header(rc1, "Content-Type", "text/html; charset=utf-8")
             file == fs_read_to_string(path)
         IN IF file.ok THEN Rc_write(rc2, file.content, env)
            ELSE Rc_write(Rc_status(rc2, StatusArg_Enum("InternalServerError")),
                          NoFileBody(path), env)

\* One call of a Response method, as a value: what a handler does is a
\* sequence of these.
Call_status(arg) == [arg |-> arg, op |-> "status"]
Call_set_header(key, value) == [key |-> key, op |-> "set_header", value |-> value]
Call_send(msg) == [msg |-> msg, op |-> "send"]
Call_json(msg) == [msg |-> msg, op |-> "json"]
Call_html(body) == [msg |-> body, op |-> "html"]
Call_html_file(path) == [op |-> "html_file", path |-> path]

Apply(rc, call, env) ==
    CASE call.op = "status" -> Rc_status(rc, call.arg)
      [] call.op = "set_header" -> Rc_set_header(rc, call.key, call.value)
      [] call.op = "send" -> Response_send(rc, call.msg, env)
      [] call.op = "json" -> Response_json(rc, call.msg, env)
      [] call.op = "html" -> Response_html(rc, call.msg, env)
      [] call.op = "html_file" -> Response_html_file(rc, call.path, env)

RECURSIVE ApplyAll(_, _, _)
ApplyAll(rc, cs, env) ==
    IF cs = <<>> THEN rc ELSE ApplyAll(Apply(rc, Head(cs), env), Tail(cs), env)

IsTerminal(call) == call.op \in {"send", "json", "html", "html_file"}

(***************************************************************************)
(* Router.                                                                 *)
(***************************************************************************)
Router_new == <<>>

\* Mutant: registering a method and pattern a second time replaces the
\* route registered first.
Router_add_route_replace(rts, method, path, handler) ==
    IF \E i \in 1..Len(rts) : rts[i].method = method /\ rts[i].path = path
    THEN [i \in 1..Len(rts) |->
            IF rts[i].method = method /\ rts[i].path = path
            THEN Route_new(method, path, handler) ELSE rts[i]]
    ELSE Append(rts, Route_new(method, path, handler))

Router_add_route(rts, method, path, handler) ==
    Append(rts, Route_new(method, path, handler))

\* Mutant: the routes are tried from the last registered to the first.
RECURSIVE Scan_reversed(_, _, _)
Scan_reversed(rts, i, rq) ==
    IF i > Len(rts) THEN [fell_through |-> TRUE, invoked |-> <<>>, req |-> rq]
    ELSE LET k == Len(rts) + 1 - i
             m == Matches(rts[k], rq)
         IN IF m.ok
            THEN [fell_through |-> FALSE, invoked |-> <<k>>, req |-> m.req]
            ELSE Scan_reversed(rts, i + 1, m.req)

\* Mutant: no return after the handler; the loop goes on to the next routes.
RECURSIVE Scan_no_return(_, _, _)
Scan_no_return(rts, i, rq) ==
    IF i > Len(rts) THEN [fell_through |-> TRUE, invoked |-> <<>>, req |-> rq]
    ELSE LET m == Matches(rts[i], rq)
             rest == Scan_no_return(rts, i + 1, m.req)
         IN IF m.ok
            THEN [fell_through |-> rest.fell_through,
                  invoked |-> <<i>> \o rest.invoked, req |-> rest.req]
            ELSE rest

\* The loop of Router::handle from route i on: the indices of the routes
\* whose handler it invokes (it returns at the first route whose matches()
\* is true), whether it falls out of the loop, and the Request as the calls
\* of matches() leave it.
RECURSIVE Scan(_, _, _)
Scan(rts, i, rq) ==
    IF i > Len(rts) THEN [fell_through |-> TRUE, invoked |-> <<>>, req |-> rq]
    ELSE LET m == Matches(rts[i], rq)
         IN IF m.ok
            THEN [fell_through |-> FALSE, invoked |-> <<i>>, req |-> m.req]
            ELSE Scan(rts, i + 1, m.req)

\* What the registered handlers do with the Response they are given.
HandlerBody(h) ==
    CASE h = "hello" -> << Call_send("Hello from rxpress!") >>
      [] h = "error_enum" ->
           << Call_status(StatusArg_Enum("Forbidden")),
              Call_send("Forbidden!"),
              Call_send("Ignored response") >>
      [] h = "dummy_handler" -> << >>

RECURSIVE HandlerCalls(_, _)
HandlerCalls(rts, idxs) ==
    IF idxs = <<>> THEN <<>>
    ELSE HandlerBody(rts[Head(idxs)].handler) \o HandlerCalls(rts, Tail(idxs))

\* The calls the Router itself makes after the loop.
NotFoundCalls ==
    << Call_status(StatusArg_Code(404)), Call_send("404 Not Found") >>

\* Mutant: the calls after the loop are made whether a route matched or not.
Router_handle_always_404(rts, rq, rc, env) ==
    LET scan == Scan(rts, 1, rq)
        cs == HandlerCalls(rts, scan.invoked) \o NotFoundCalls
    IN [calls |-> cs, invoked |-> scan.invoked,
        rc |-> ApplyAll(rc, cs, env), req |-> scan.req]

\* Router::handle: the Request, the Response and its stream, the routes
\* whose handler ran and the Response calls made, after it returns.
Router_handle(rts, rq, rc, env) ==
    LET scan == Scan(rts, 1, rq)
        cs == HandlerCalls(rts, scan.invoked)
              \o (IF scan.fell_through THEN NotFoundCalls ELSE <<>>)
    IN [calls |-> cs, invoked |-> scan.invoked,
        rc |-> ApplyAll(rc, cs, env), req |-> scan.req]

(***************************************************************************)
(* Inputs.                                                                 *)
(***************************************************************************)
\* Every string over alphabet A of at most n characters.
Strings(A, n) == UNION {[1..k -> A] : k \in 0..n}

GET == <<"G", "E", "T">>
POST == <<"P", "O", "S", "T">>

\* Method tokens: those Server::get .. Server::head register are upper-case;
\* Route::new takes any token, and a client sends any token.
RouteMethods == {GET, POST, <<"g", "e", "t">>, <<"P", "A", "S", "S">>}
RequestMethods ==
    {GET, POST, <<"g", "e", "t">>, <<"G", "e", "t">>, <<"p", "o", "s", "t">>,
     <<"p", "a", "U+00DF">>}

\* /users/:id and the paths it is tried on; a literal in two letter cases;
\* a pattern that names one parameter twice.
ExamplePaths ==
    { <<"/", "u", "s", "e", "r", "s", "/", ":", "i", "d">>,
      <<"/", "u", "s", "e", "r", "s">>,
      <<"/", "u", "s", "e", "r", "s", "/", "1">>,
      <<"/", "u", "s", "e", "r", "s", "/", "1", "/">>,
      <<"/", "u", "s", "e", "r", "s", "/", "1", "/", "2">>,
      <<"/", "i", "t", "e", "m", "s", "/", "1">>,
      <<"/", "A">>,
      <<"/", "u", "s", "e", "r", "s", "/", "4", "2">>,
      <<"/", "u", "s", "e", "r", "s", "/">>,
      <<"/", ":", "a", "/", ":", "a">>,
      <<"/", "a", "/", "1">> }

Paths == Strings({"/", ":", "a"}, MaxLen) \cup ExamplePaths

\* The routes and requests of the whole-server specification.
ServerMethods == {GET, POST}
ServerPatterns ==
    { <<"/", "a", "/", ":", "x">>, <<"/", ":", "y", "/", "b">>, <<"/">> }
Handlers == {"hello", "error_enum", "dummy_handler"}

\* What a caller passes to the Response methods.
StatusArgs ==
    { StatusArg_Enum("Forbidden"), StatusArg_Code(999), StatusArg_Code(511),
      StatusArg_CodeReason(599, "Network Timeout") }
SetHeaderArgs ==
    { <<"X-Custom", "1234">>, <<"Content-Type", "image/png">>,
      <<"content-type", "text/css">>, <<"content-type", "image/png">>,
      <<"Content-Length", "0">> }
HeaderKeys ==
    {"HTTP-Server-Powered-By", "Content-Type", "X-Custom", "content-type",
     "Content-Length"}

\* The environments the write of Response r can meet: every I/O outcome and
\* every iteration order of the keys its map holds at the write (a terminal
\* call has put Content-Type there).
EnvsAt(r) ==
    [io : IoOutcomes, rank : Orders(DOMAIN r.headers \cup {"Content-Type"})]

\* The environments of the whole-server specification: every I/O outcome,
\* two iteration orders of the header map.
ServerEnvs ==
    [io : IoOutcomes,
     rank : { <<"HTTP-Server-Powered-By", "Content-Type", "X-Custom">>,
              <<"X-Custom", "Content-Type", "HTTP-Server-Powered-By">> }]

\* Request lines.  A target is every string over `?`, `&`, `=`, `a` up to
\* MaxLen characters and the targets of the examples and tests of the crate.
ExampleTargets ==
    { <<"/">>,
      <<"/", "h", "e", "l", "l", "o", "?", "d", "e", "v", "e", "l", "o", "p", "e", "r", "=", "a", "l", "f", "a", "a", "r", "g", "h", "y">>,
      <<"/", "s", "e", "a", "r", "c", "h", "?", "q", "=", "r", "u", "s", "t">>,
      <<"/", "p", "?", "a", "=", "1", "&", "b", "=", "2", "&", "e", "m", "p", "t", "y">>,
      <<"/", "p", "?", "a", "&", "a", "=", "1">>,
      <<"/", "p", "?", "a", "=", "1", "&", "a">>,
      <<"/", "p", "?", "a", "=", "b", "=", "c">>,
      <<"/", "p", "?", "x", "?", "y", "=", "1">> }

Targets == Strings({"?", "&", "=", "a"}, MaxLen) \cup ExampleTargets

RootLine == <<"G", "E", "T", " ", "/", " ", "H", "T", "T", "P", "/", "1", ".", "1">>

\* Lines of three tokens: `GET target HTTP/1.1` for every target, and the
\* example targets with other methods, versions and runs of whitespace;
\* lines of zero, one, two and four tokens.
RequestLines ==
    {GET \o <<" ">> \o t \o <<" ">> \o HTTP11 : t \in Targets \ {<<>>}}
    \cup {pad \o m \o sep \o t \o sep \o v \o pad :
             pad \in {<<>>, <<" ">>}, m \in {GET, <<"p", "o", "s", "t">>},
             sep \in {<<" ">>, <<" ", "\t">>}, t \in ExampleTargets,
             v \in {HTTP11, <<"H", "T", "T", "P", "/", "1", ".", "0">>}}
    \cup
    { <<>>,
      <<" ", " ">>,
      <<"P", "O", "S", "T">>,
      <<"P", "O", "S", "T", " ", "/", "a", "/", "b">>,
      <<"G", "E", "T", " ", "/", "?", "a", "=", "1">>,
      <<"P", "O", "S", "T", " ", "/", "a", "/", "b", " ", "H", "T", "T", "P", "/", "1", ".", "1", " ", "x">>,
      <<"G", "E", "T", " ", "/", " ", "H", "T", "T", "P", "/", "1", ".", "1", " ", "H", "T", "T", "P", "/", "1", ".", "1", " ", "/">> }

HdrAuthorization == <<"A", "u", "t", "h", "o", "r", "i", "z", "a", "t", "i", "o", "n">>
HdrAge == <<"A", "g", "e">>

ExampleHeaderLines ==
    { <<"A", "u", "t", "h", "o", "r", "i", "z", "a", "t", "i", "o", "n", ":", " ", "X">>,
      <<"H", "o", "s", "t", ":", " ", "l", "o", "c", "a", "l", "h", "o", "s", "t">>,
      <<"h", "o", "s", "t", ":", "h", "2">>,
      <<"C", "o", "n", "t", "e", "n", "t", "-", "T", "y", "p", "e", " ", ":", " ", "t", "e", "x", "t", "/", "p", "l", "a", "i", "n">>,
      <<"m", "a", "l", "f", "o", "r", "m", "e", "d", " ", "h", "e", "a", "d", "e", "r">> }

\* Header lines as a client sends them: one line, every string over `A`,
\* `a`, `:` and the blank up to MaxLen characters (the empty line ends the
\* headers) or an example; two example lines; a read error and an empty
\* line between two lines.
HeaderLineLists ==
    {<<>>}
    \cup {<<Line_Ok(l)>> :
             l \in Strings({"A", "a", ":", " "}, MaxLen) \cup ExampleHeaderLines}
    \cup {<<Line_Ok(l1), Line_Ok(l2)>> : l1, l2 \in ExampleHeaderLines}
    \cup {<<Line_Ok(<<"A", "u", "t", "h", "o", "r", "i", "z", "a", "t", "i", "o", "n", ":", " ", "X">>), Line_Err, Line_Ok(<<"H", "o", "s", "t", ":", " ", "l", "o", "c", "a", "l", "h", "o", "s", "t">>)>>,
           <<Line_Ok(<<"H", "o", "s", "t", ":", " ", "l", "o", "c", "a", "l", "h", "o", "s", "t">>), Line_Ok(<<>>), Line_Ok(<<"A", "g", "e", ":", " ", "1">>)>>}

\* What a connection delivers: a request line and header lines.
WireInputs ==
    {[header_lines |-> <<>>, line |-> l] : l \in RequestLines}
    \cup {[header_lines |-> hl, line |-> RootLine] : hl \in HeaderLineLists}

\* What a caller of Request::new passes directly: header maps with keys in
\* any letter case.
DirectInputs ==
    {[headers |-> h, line |-> RootLine] :
        h \in { Insert(EmptyMap, HdrAuthorization,
                       <<"B", "e", "a", "r", "e", "r", " ", "a", "b", "c", "1", "2", "3">>),
                Insert(Insert(EmptyMap, HdrAge, <<"1">>),
                       to_ascii_lowercase(HdrAge), <<"2">>) }}

\* The keys and defaults a handler asks the accessors for.
HeaderAskKeys ==
    { HdrAuthorization, to_ascii_lowercase(HdrAuthorization),
      <<"H", "o", "s", "t">>, <<"X", "-", "T", "o", "k", "e", "n">>, HdrAge,
      <<"A">>, <<"a">> }
QueryAskKeys == { <<"a">>, <<>>, <<"q">>, <<"e", "m", "p", "t", "y">> }
ParamAskKeys == { <<"i", "d">>, <<"u", "s", "e", "r", "n", "a", "m", "e">> }
DefaultValue == <<"d", "e", "f", "a", "u", "l", "t">>

\* The request lines of the whole-server specification: `GET path HTTP/1.1`,
\* one path with the methods in other letter cases, one with a query
\* string, and lines of zero, one, two and four tokens.
ClientLines ==
    {GET \o <<" ">> \o p \o <<" ">> \o HTTP11 :
        p \in { <<"/", "a", "/", "b">>, <<"/", "a", "/", "c">>,
                <<"/", "c", "/", "b">>, <<"/", "c", "/", "d">>, <<"/", "a">>,
                <<"/">> }}
    \cup {m \o <<" ", "/", "a", "/", "b", " ">> \o HTTP11 :
             m \in {GET, <<"g", "e", "t">>, <<"P", "o", "s", "t">>}}
    \cup {GET \o <<" ", "/", "a", "/", "b", "?", "q", "=", "1", " ">> \o HTTP11}
    \cup { <<>>, <<"P", "O", "S", "T">>,
           <<"P", "O", "S", "T", " ", "/", "a", "/", "b">>,
           <<"P", "O", "S", "T", " ", "/", "a", "/", "b", " ", "H", "T", "T", "P", "/", "1", ".", "1", " ", "x">> }

(***************************************************************************)
(* Connections.                                                            *)
(***************************************************************************)
MaxConns == 2    \* most connections the accept loop is given

PostLine ==
    <<"P", "O", "S", "T", " ", "/", "a", "/", "b", " ", "H", "T", "T", "P", "/", "1", ".", "1">>

\* The routes of the connection specification.
ServeRoutes ==
    Router_add_route(
        Router_add_route(Router_new, GET, <<"/">>, "hello"),
        POST, <<"/", "a", "/", ":", "x">>, "error_enum")

\* The bytes that follow the empty line.
BodyBytes ==
    { <<>>, <<"a", "b", "c">>, <<"a", "0xFF", "c", "d", "e">> }

\* What a client delivers on one connection, as the unread input
\* [bytes, lines]: nothing; a read error at once; a request line and header
\* lines (HeaderLineLists: with and without the empty line, with a read
\* error, with malformed lines); a request with a content-length header, the
\* empty line and body bytes (lengths below, at and above what the stream
\* holds, values that str::parse::<usize> accepts and rejects); a read error
\* between the headers.
ConnInputs ==
    { [bytes |-> <<>>, lines |-> <<>>],
      [bytes |-> <<>>, lines |-> <<Line_Err>>],
      [bytes |-> <<>>, lines |-> <<Line_Err, Line_Ok(RootLine), Line_Ok(<<>>)>>] }
    \cup {[bytes |-> <<>>, lines |-> <<Line_Ok(RootLine)>> \o hl] :
             hl \in HeaderLineLists}
    \cup {[bytes |-> <<>>,
           lines |-> <<Line_Ok(RootLine),
                       Line_Ok(<<"m", "a", "l", "f", "o", "r", "m", "e", "d", " ", "h", "e", "a", "d", "e", "r">>),
                       Line_Ok(<<"H", "o", "s", "t", ":", " ", "l", "o", "c", "a", "l", "h", "o", "s", "t">>),
                       Line_Ok(<<"h", "o", "s", "t", ":", "h", "2">>),
                       Line_Ok(<<>>),
                       Line_Ok(<<"A", "g", "e", ":", " ", "1">>)>>]}
    \cup {[bytes |-> b, lines |-> <<Line_Ok(PostLine), Line_Ok(l), Line_Ok(<<>>)>>] :
             l \in { <<"C", "o", "n", "t", "e", "n", "t", "-", "L", "e", "n", "g", "t", "h", ":", " ", "3">>,
                    <<"C", "o", "n", "t", "e", "n", "t", "-", "L", "e", "n", "g", "t", "h", ":", " ", "0">>,
                    <<"c", "o", "n", "t", "e", "n", "t", "-", "l", "e", "n", "g", "t", "h", ":", "5">>,
                    <<"C", "o", "n", "t", "e", "n", "t", "-", "L", "e", "n", "g", "t", "h", ":", " ", "-", "1">>,
                    <<"C", "o", "n", "t", "e", "n", "t", "-", "L", "e", "n", "g", "t", "h", ":", " ", "a", "b", "c">>,
                    <<"C", "o", "n", "t", "e", "n", "t", "-", "L", "e", "n", "g", "t", "h", ":", " ", "+", "3">>,
                    <<"C", "o", "n", "t", "e", "n", "t", "-", "L", "e", "n", "g", "t", "h", ":">>,
                    <<"C", "o", "n", "t", "e", "n", "t", "-", "L", "e", "n", "g", "t", "h", ":", " ", "0", "3">>,
                    <<"C", "o", "n", "t", "e", "n", "t", "-", "L", "e", "n", "g", "t", "h", ":", " ", "9", "9", "9", "9", "9", "9", "9", "9", "9", "9", "9", "9", "9", "9", "9", "9", "9", "9", "9", "9">>,
                    <<"C", "o", "n", "t", "e", "n", "t", "-", "L", "e", "n", "g", "t", "h", ":", " ", "3", " ", "0">> },
             b \in BodyBytes}
    \cup {[bytes |-> b,
           lines |-> <<Line_Ok(PostLine), Line_Ok(<<"C", "o", "n", "t", "e", "n", "t", "-", "L", "e", "n", "g", "t", "h", ":", " ", "3">>),
                       Line_Err, Line_Ok(<<"X", ":", " ", "y">>), Line_Ok(<<>>)>>] :
             b \in BodyBytes}

(***************************************************************************)
(* The server: routes are registered, then Server::run serves a            *)
(* connection: request read, dispatch, handler, response.                  *)
(***************************************************************************)
Init ==
    /\ routes = Router_new
    /\ req = None
    /\ res = None
    /\ wire = None
    /\ stream = <<>>
    /\ pc = "setup"
    /\ invoked = <<>>
    /\ calls = <<>>
    /\ ret = None
    /\ conn = None
    /\ log = <<>>

\* Mutant: the verb functions register the method token in lower case.
AddRoute_lower_case(method, path, handler) ==
    /\ pc = "setup"
    /\ Len(routes) < MaxRoutes
    /\ routes' = Router_add_route(routes, to_ascii_lowercase(method), path, handler)
    /\ UNCHANGED <<req, res, stream, pc, invoked, calls, ret, wire, conn, log>>

\* Router::add_route, before the server runs.
AddRoute(method, path, handler) ==
    /\ pc = "setup"
    /\ Len(routes) < MaxRoutes
    /\ routes' = Router_add_route(routes, method, path, handler)
    /\ UNCHANGED <<req, res, stream, pc, invoked, calls, ret, wire, conn, log>>

\* Server::run
Run ==
    /\ pc = "setup"
    /\ pc' = "running"
    /\ UNCHANGED <<routes, req, res, stream, invoked, calls, ret, wire, conn, log>>

\* handle_connection for a connection that delivers a request line and no
\* header: Request::new, Response::new, Router::handle.
HandleConnection(line, env) ==
    /\ pc = "running"
    /\ wire' = [header_lines |-> <<>>, line |-> line]
    /\ \E h \in {Router_handle(routes,
                               Request_new(line, get_headers(<<>>), ""),
                               [res |-> Response_new, stream |-> <<>>], env)} :
          /\ req' = h.req
          /\ res' = h.rc.res
          /\ stream' = h.rc.stream
          /\ invoked' = h.invoked
          /\ calls' = h.calls
    /\ pc' = "done"
    /\ UNCHANGED <<routes, ret, conn, log>>

\* The stream of the connection works or fails at the body write; the
\* header map iterates in one order.
Next ==
    \/ \E m \in ServerMethods, p \in ServerPatterns, h \in Handlers :
          AddRoute(m, p, h)
    \/ Run
    \/ \E line \in ClientLines,
          env \in {e \in ServerEnvs : e.io \in {"none", "body"}
                                     /\ e.rank[1] = "X-Custom"} :
          HandleConnection(line, env)

Spec == Init /\ [][Next]_vars

(***************************************************************************)
(* A caller holding a fresh Response and calling its methods in any order. *)
(***************************************************************************)
InitResponse ==
    /\ routes = Router_new
    /\ req = None
    /\ res = Response_new
    /\ wire = None
    /\ stream = <<>>
    /\ pc = "handler"
    /\ invoked = <<>>
    /\ calls = <<>>
    /\ ret = None
    /\ conn = None
    /\ log = <<>>

\* One method call on the Response.
Call(call, env) ==
    /\ pc = "handler"
    /\ Len(calls) < MaxCalls
    /\ \E rc \in {Apply([res |-> res, stream |-> stream], call, env)} :
          /\ res' = rc.res
          /\ stream' = rc.stream
    /\ calls' = Append(calls, call)
    /\ UNCHANGED <<routes, req, pc, invoked, ret, wire, conn, log>>

\* The environment acts only when a call reaches the stream: a call that is
\* not terminal, or one made on a sent Response, meets one quiet environment.
QuietEnv == [io |-> "none", rank |-> <<>>]

CallOn(call) ==
    \E env \in IF IsTerminal(call) /\ ~res.sent THEN EnvsAt(res) ELSE {QuietEnv} :
       Call(call, env)

CallStatus == \E arg \in StatusArgs : CallOn(Call_status(arg))
CallSetHeader == \E kv \in SetHeaderArgs : CallOn(Call_set_header(kv[1], kv[2]))
CallSend == CallOn(Call_send("hello"))
CallJson == CallOn(Call_json("{\"msg\":\"ok\"}"))
CallHtml == CallOn(Call_html("<h1>Test</h1>"))
CallHtmlFile ==
    \E path \in {"index.html", "missing_file.html"} : CallOn(Call_html_file(path))

NextResponse ==
    \/ CallStatus
    \/ CallSetHeader
    \/ CallSend
    \/ CallJson
    \/ CallHtml
    \/ CallHtmlFile

SpecResponse == InitResponse /\ [][NextResponse]_vars

(***************************************************************************)
(* A caller building one Route and one Request and calling matches().      *)
(***************************************************************************)
InitMatch ==
    /\ \E m \in RouteMethods, p \in Paths :
          routes = << Route_new(m, p, "dummy_handler") >>
    /\ \E m \in RequestMethods, p \in Paths : req = NewRequest(m, p)
    /\ res = None
    /\ wire = None
    /\ stream = <<>>
    /\ pc = "call"
    /\ invoked = <<>>
    /\ calls = <<>>
    /\ ret = None
    /\ conn = None
    /\ log = <<>>

CallMatches ==
    /\ pc = "call"
    /\ \E m \in {Matches(routes[1], req)} :
          /\ ret' = m.ok
          /\ req' = m.req
    /\ pc' = "returned"
    /\ UNCHANGED <<routes, res, stream, invoked, calls, wire, conn, log>>

NextMatch == CallMatches

SpecMatch == InitMatch /\ [][NextMatch]_vars

(***************************************************************************)
(* A caller building one Request, from what a connection delivers or from  *)
(* a header map of its own, and calling the accessors of the Request.       *)
(***************************************************************************)
InitRequest ==
    /\ routes = Router_new
    /\ req = None
    /\ res = None
    /\ wire \in WireInputs \cup DirectInputs
    /\ stream = <<>>
    /\ pc = "input"
    /\ invoked = <<>>
    /\ calls = <<>>
    /\ ret = None
    /\ conn = None
    /\ log = <<>>

\* handle_connection up to Request::new: request line, get_headers, no body.
ReadRequest ==
    /\ pc = "input"
    /\ "header_lines" \in DOMAIN wire
    /\ req' = Request_new(wire.line, get_headers(wire.header_lines), "")
    /\ pc' = "built"
    /\ UNCHANGED <<routes, res, stream, invoked, calls, ret, wire, conn, log>>

\* Request::new called with a header map, as the tests of the crate do.
NewDirect ==
    /\ pc = "input"
    /\ "headers" \in DOMAIN wire
    /\ req' = Request_new(wire.line, wire.headers, "")
    /\ pc' = "built"
    /\ UNCHANGED <<routes, res, stream, invoked, calls, ret, wire, conn, log>>

\* req.params.insert, as Route::matches and the tests of the crate do.
InsertParam ==
    /\ pc = "built"
    /\ req.params = EmptyMap
    /\ req' = [req EXCEPT !.params = Insert(@, <<"i", "d">>, <<"4", "2">>)]
    /\ ret' = None
    /\ UNCHANGED <<routes, res, stream, pc, invoked, calls, wire, conn, log>>

\* One accessor call on the Request (&self): only its result is new.
Accessor(op, key, default, result) ==
    /\ pc = "built"
    /\ ret' = [default |-> default, key |-> key, op |-> op, result |-> result]
    /\ UNCHANGED <<routes, req, res, stream, pc, invoked, calls, wire, conn, log>>

CallHeader ==
    /\ pc = "built"
    /\ \E key \in HeaderAskKeys, order \in Orders(DOMAIN req.headers) :
          Accessor("header", key, <<>>, Request_header(req, key, order))
CallHeaderOr ==
    \E key \in HeaderAskKeys :
        Accessor("header_or", key, DefaultValue,
                 Request_header_or(req, key, DefaultValue))
CallHeaderExpect ==
    \E key \in HeaderAskKeys :
        Accessor("header_expect", key, <<>>, Request_header_expect(req, key))
CallParam ==
    \E key \in ParamAskKeys :
        Accessor("param", key, <<>>, Request_param(req, key))
CallParamOr ==
    \E key \in ParamAskKeys :
        Accessor("param_or", key, DefaultValue,
                 Request_param_or(req, key, DefaultValue))
CallParamExpect ==
    \E key \in ParamAskKeys :
        Accessor("param_expect", key, <<>>, Request_param_expect(req, key))
CallQuery ==
    \E key \in QueryAskKeys :
        Accessor("query", key, <<>>, Request_query(req, key))
CallQueryOr ==
    \E key \in QueryAskKeys :
        Accessor("query_or", key, DefaultValue,
                 Request_query_or(req, key, DefaultValue))
CallQueryExpect ==
    \E key \in QueryAskKeys :
        Accessor("query_expect", key, <<>>, Request_query_expect(req, key))

NextRequest ==
    \/ ReadRequest
    \/ NewDirect
    \/ InsertParam
    \/ CallHeader
    \/ CallHeaderOr
    \/ CallHeaderExpect
    \/ CallParam
    \/ CallParamOr
    \/ CallParamExpect
    \/ CallQuery
    \/ CallQueryOr
    \/ CallQueryExpect

SpecRequest == InitRequest /\ [][NextRequest]_vars

(***************************************************************************)
(* The accept loop of Server::run and the steps of handle_connection on    *)
(* each connection: request line, headers, body, dispatch.                 *)
(***************************************************************************)
InitServe ==
    /\ routes = ServeRoutes
    /\ req = None
    /\ res = None
    /\ wire = None
    /\ stream = <<>>
    /\ pc = "accept"
    /\ invoked = <<>>
    /\ calls = <<>>
    /\ ret = None
    /\ conn = None
    /\ log = <<>>

\* One step of the loop, as the log keeps it: the connection it belongs to,
\* whether it succeeded, and which step it was.
Step(id, ok, step) == [conn |-> id, ok |-> ok, step |-> step]

\* The connections listener.incoming() has yielded so far, failed ones too.
Accepted == Cardinality({i \in 1..Len(log) : log[i].step = "accept"})

\* Mutant: the loop takes the next connection wherever the one before is.
CanAccept_any_time == pc \in {"accept", "request_line", "headers", "body", "dispatch"}

\* The loop is at listener.incoming() only after handle_connection returned.
CanAccept == pc = "accept"

\* Server::run, Ok(stream): handle_connection starts on the new connection.
Accept(input) ==
    /\ CanAccept
    /\ Accepted < MaxConns
    /\ wire' = input
    /\ conn' = [body |-> None, headers |-> None, id |-> Accepted + 1,
                request_line |-> None]
    /\ req' = None
    /\ res' = None
    /\ stream' = <<>>
    /\ invoked' = <<>>
    /\ calls' = <<>>
    /\ ret' = None
    /\ pc' = "request_line"
    /\ log' = Append(log, Step(Accepted + 1, TRUE, "accept"))
    /\ UNCHANGED routes

\* Server::run, Err(err): the error is printed and the loop goes on.
AcceptFailed ==
    /\ CanAccept
    /\ Accepted < MaxConns
    /\ log' = Append(log, Step(Accepted + 1, FALSE, "accept"))
    /\ UNCHANGED <<routes, req, res, wire, stream, pc, invoked, calls, ret, conn>>

\* handle_connection: get_request_line; Err(_) => return.
ReadRequestLine ==
    /\ pc = "request_line"
    /\ ret' = get_request_line(wire.lines)
    /\ wire' = [wire EXCEPT !.lines = IF @ = <<>> THEN @ ELSE Tail(@)]
    /\ conn' = IF ret'.ok THEN [conn EXCEPT !.request_line = ret'.value] ELSE conn
    /\ pc' = IF ret'.ok THEN "headers" ELSE "accept"
    /\ log' = Append(log, Step(conn.id, ret'.ok, "request_line"))
    /\ UNCHANGED <<routes, req, res, stream, invoked, calls>>

\* handle_connection: get_headers, which has no failure to return.  The log
\* keeps whether the iterator delivered a read error.
ReadHeaders ==
    /\ pc = "headers"
    /\ \E n \in {get_headers_consumed(wire.lines)} :
          /\ wire' = [wire EXCEPT !.lines = SubSeq(@, n + 1, Len(@))]
          /\ log' = Append(log, Step(conn.id, n = 0 \/ wire.lines[n].ok, "headers"))
    /\ ret' = get_headers(wire.lines)
    /\ conn' = [conn EXCEPT !.headers = ret']
    /\ pc' = "body"
    /\ UNCHANGED <<routes, req, res, stream, invoked, calls>>

\* handle_connection: get_body; Err(_) => return.
ReadBody ==
    /\ pc = "body"
    /\ \E b \in {get_body(conn.headers, wire)} :
          /\ ret' = b.result
          /\ wire' = b.wire
    /\ conn' = IF ret'.ok THEN [conn EXCEPT !.body = ret'.value] ELSE conn
    /\ pc' = IF ret'.ok THEN "dispatch" ELSE "accept"
    /\ log' = Append(log, Step(conn.id, ret'.ok, "body"))
    /\ UNCHANGED <<routes, req, res, stream, invoked, calls>>

\* handle_connection: Request::new, Response::new, Router::handle, with the
\* handler and every stream operation of its response; then it returns.
Dispatch(env) ==
    /\ pc = "dispatch"
    /\ \E h \in {Router_handle(routes,
                               Request_new(conn.request_line, conn.headers, conn.body),
                               [res |-> Response_new, stream |-> <<>>], env)} :
          /\ req' = h.req
          /\ res' = h.rc.res
          /\ stream' = h.rc.stream
          /\ invoked' = h.invoked
          /\ calls' = h.calls
          /\ log' = log \o <<Step(conn.id, TRUE, "dispatch")>>
                        \o (IF h.rc.stream = <<>> THEN <<>>
                            ELSE <<Step(conn.id,
                                        \A i \in 1..Len(h.rc.stream) : h.rc.stream[i].ok,
                                        "write")>>)
    /\ pc' = "accept"
    /\ UNCHANGED <<routes, wire, ret, conn>>

\* The stream of a dispatched connection works or fails at the body write;
\* the header map iterates in one order.
NextServe ==
    \/ \E input \in ConnInputs : Accept(input)
    \/ AcceptFailed
    \/ ReadRequestLine
    \/ ReadHeaders
    \/ ReadBody
    \/ \E env \in {e \in ServerEnvs : e.io \in {"none", "body"}
                                     /\ e.rank[1] = "X-Custom"} :
          Dispatch(env)

SpecServe == InitServe /\ [][NextServe]_vars

(***************************************************************************)
(* Properties of the Response writer (SpecResponse).                       *)
(***************************************************************************)
TerminalCalls == SelectSeq(calls, IsTerminal)

StreamPart(part) == SelectSeq(stream, LAMBDA e : e.part = part)

\* The body a terminal call asks to send.
BodyOfCall(call) ==
    IF call.op = "html_file"
    THEN (IF call.path = "index.html" THEN "<h1>Hello</h1>"
          ELSE "<h2>Internal Server Error</h2>\n<p>No file found on "
               \o call.path \o "</p>")
    ELSE call.msg

ContentTypeOfCall(call) ==
    CASE call.op = "send" -> "text/plain"
      [] call.op = "json" -> "application/json"
      [] OTHER -> "text/html; charset=utf-8"

\* The lines of a header block that carry header `key`.
LinesNamed(block, key) ==
    SelectSeq(block, LAMBDA l : Len(l) = 2 /\ l[1] = key)

\* C1: whatever sequence of terminal calls (send, json, html, html_file) is
\* made on one Response, write_response runs exactly once, for the first of
\* them: the stream holds one header block, one body and one flush (fewer
\* only if a stream operation failed), the header block names the
\* Content-Type and Content-Length of the first terminal call and the body
\* is that call's body; before any terminal call the stream is empty.
C1_SingleWrite ==
    IF TerminalCalls = <<>> THEN stream = <<>>
    ELSE LET first == TerminalCalls[1]
             heads == StreamPart("head")
             bodies == StreamPart("body")
         IN /\ Len(heads) = 1
            /\ stream[1].part = "head"
            /\ LinesNamed(heads[1].data, "Content-Type")
                 = << <<"Content-Type", ContentTypeOfCall(first)>> >>
            /\ heads[1].data[Len(heads[1].data) - 1]
                 = <<"Content-Length", ToString(Len(BodyOfCall(first)))>>
            /\ Len(bodies) <= 1
            /\ \A i \in 1..Len(bodies) : bodies[i].data = BodyOfCall(first)
            /\ Len(StreamPart("flush")) <= 1
            /\ Len(stream) <= 3
            /\ (\A i \in 1..Len(stream) : stream[i].ok) => Len(stream) = 3

\* C1 witness: three terminal calls of different kinds were made and the one
\* response went out completely, with the first call's body.
C1_Witness ==
    /\ Len(TerminalCalls) = 3
    /\ TerminalCalls[1].op = "json"
    /\ TerminalCalls[2].op = "send"
    /\ TerminalCalls[3].op = "html_file"
    /\ Len(stream) = 3
    /\ \A i \in 1..3 : stream[i].ok
    /\ stream[2].data = "{\"msg\":\"ok\"}"

\* The call a step makes, when the step is one call on the Response.
IsCallStep == Len(calls') = Len(calls) + 1
LastCall == calls'[Len(calls')]

\* C2: once `sent` is true, no later call of status, set_header, send, json,
\* html or html_file changes or extends what was handed to the stream.
C2_SentFreezesWire == [][res.sent => stream' = stream]_vars

\* C2 witness: the response went out at the first call and a set_header and
\* another terminal call came after it.
C2_Witness ==
    /\ res.sent
    /\ Len(calls) = 3
    /\ calls[1].op = "send"
    /\ calls[2].op = "set_header"
    /\ calls[3].op = "json"
    /\ Len(stream) = 3

\* C3 as stated: after the first terminal call a later status(...) call
\* leaves the stored status code and reason unchanged and a later
\* set_header(...) call leaves the stored header map unchanged.
C3_Original ==
    [][(res.sent /\ IsCallStep /\ LastCall.op \in {"status", "set_header"})
         => /\ res'.status_code = res.status_code
            /\ res'.status_reason = res.status_reason
            /\ res'.headers = res.headers]_vars

\* The status code a status(arg) call asks for.
CodeOfArg(arg) == IF arg.kind = "Enum" THEN HttpStatus_code(arg.e) ELSE arg.code

\* C3 amended: after the first terminal call, status and set_header are not
\* guarded by `sent`: a later status(...) call still overwrites the stored
\* status code (the header map keeps its value) and a later set_header(k, v)
\* call still stores v under k (the status keeps its value); neither changes
\* `sent` nor what was handed to the stream.
C3_LateMutationStored ==
    [][(res.sent /\ IsCallStep /\ LastCall.op \in {"status", "set_header"})
         => /\ res'.sent
            /\ stream' = stream
            /\ LastCall.op = "status"
                 => /\ res'.status_code = CodeOfArg(LastCall.arg)
                    /\ res'.headers = res.headers
            /\ LastCall.op = "set_header"
                 => /\ LastCall.key \in DOMAIN res'.headers
                    /\ res'.headers[LastCall.key] = LastCall.value
                    /\ \A k \in DOMAIN res.headers \ {LastCall.key} :
                           k \in DOMAIN res'.headers
                           /\ res'.headers[k] = res.headers[k]
                    /\ res'.status_code = res.status_code
                    /\ res'.status_reason = res.status_reason]_vars

\* C3 witness: after send, status(999) and set_header("Content-Type", ..)
\* were called and are stored, while the stream still holds the 200 response.
C3_Witness ==
    /\ Len(calls) = 3
    /\ calls[1].op = "send"
    /\ calls[2] = Call_status(StatusArg_Code(999))
    /\ calls[3] = Call_set_header("Content-Type", "image/png")
    /\ res.sent
    /\ res.status_code = 999
    /\ res.headers["Content-Type"] = "image/png"
    /\ stream[1].data[1] = <<"HTTP/1.1", "200", "OK">>

\* C4: a terminal call (send, json, html, html_file) made while `sent` is
\* already true leaves the whole Response unchanged (status code, reason,
\* every header, `sent`) and hands nothing to the stream.
C4_LateTerminalIgnored ==
    [][(res.sent /\ IsCallStep /\ IsTerminal(LastCall))
         => (res' = res /\ stream' = stream)]_vars

\* C4 witness: html was called first, then send and json; the Content-Type
\* is still the one html chose.
C4_Witness ==
    /\ Len(calls) = 3
    /\ calls[1].op = "html"
    /\ calls[2].op = "send"
    /\ calls[3].op = "json"
    /\ res.sent
    /\ res.headers["Content-Type"] = "text/html; charset=utf-8"

\* C5: `sent` is false on a new Response, is true in exactly the states
\* where a terminal call has been made (so it becomes true at the first
\* one), and no call ever sets it back to false.
C5_SentOneWay ==
    /\ ~res.sent
    /\ [](res.sent <=> TerminalCalls # <<>>)
    /\ [][res.sent => res'.sent]_vars

\* C5 witness: `sent` turned true at the second call (the first terminal
\* call) and a status call came after it.
C5_Witness ==
    /\ Len(calls) = 3
    /\ calls[1].op = "set_header"
    /\ calls[2].op = "html_file"
    /\ calls[3].op = "status"
    /\ res.sent

(***************************************************************************)
(* Properties of dispatch (Spec).                                          *)
(***************************************************************************)
\* Whether matches() of the route is true for the request as it was built.
RouteFits(route, rq) == Matches(route, NewRequest(rq.method, rq.path)).ok

FittingRoutes == {i \in 1..Len(routes) : RouteFits(routes[i], req)}

FirstFitting == CHOOSE i \in FittingRoutes : \A j \in FittingRoutes : i <= j

\* The Router's own response: status(404).send("404 Not Found") were the
\* last calls made.
RouterFinalized ==
    /\ Len(calls) >= 2
    /\ SubSeq(calls, Len(calls) - 1, Len(calls)) = NotFoundCalls

\* C6: dispatch is first-match-wins in registration order: when one or more
\* registered routes match the request, Router::handle invokes the handler
\* of the earliest-registered of them and of no other route: the Response
\* calls made are the calls of that handler alone.
C6_FirstMatchWins ==
    (pc = "done" /\ FittingRoutes # {})
      => /\ invoked = <<FirstFitting>>
         /\ calls = HandlerBody(routes[FirstFitting].handler)

\* C6 witness: two routes with different handlers both match the request
\* and the first one's handler ran.
C6_Witness ==
    /\ pc = "done"
    /\ FittingRoutes = {1, 2}
    /\ routes[1].handler = "hello"
    /\ routes[2].handler = "error_enum"
    /\ invoked = <<1>>
    /\ res.status_code = 200

\* C7: Router::handle runs exactly one handler when at least one registered
\* route matches and none otherwise, and the Router itself finalizes a
\* response (status 404, reason "Not Found", body "404 Not Found") if and
\* only if no registered route matches.
C7_OneHandlerOr404 ==
    pc = "done"
      => /\ FittingRoutes # {} => (Len(invoked) = 1 /\ ~RouterFinalized)
         /\ FittingRoutes = {}
              => /\ invoked = <<>>
                 /\ RouterFinalized
                 /\ res.sent
                 /\ res.status_code = 404
                 /\ res.status_reason = "Not Found"
                 /\ stream[1].data[1] = <<"HTTP/1.1", "404", "Not Found">>
                 /\ \A i \in 1..Len(stream) :
                       stream[i].part = "body" => stream[i].data = "404 Not Found"

\* C7 witness: two routes are registered, none matches, and the Router's
\* 404 went out completely.
C7_Witness ==
    /\ pc = "done"
    /\ Len(routes) = 2
    /\ FittingRoutes = {}
    /\ invoked = <<>>
    /\ Len(stream) = 3
    /\ stream[2].data = "404 Not Found"
    /\ stream[3].ok

\* C8 as stated: params is written for the matched route only: when a
\* handler runs, params holds exactly the bindings of the matched route's
\* `:name` segments (a route tried and rejected before it left nothing), and
\* params is still empty when no route matches and the 404 is produced.
C8_ParamsOfMatchedRouteOnly ==
    pc = "done"
      => /\ invoked = <<>> => req.params = EmptyMap
         /\ invoked # <<>>
              => req.params
                   = Matches(routes[invoked[1]],
                             NewRequest(req.method, req.path)).req.params

(***************************************************************************)
(* Properties of Route::matches (SpecMatch).                               *)
(***************************************************************************)
\* The segments of a path, counted and cut at its `/` characters.
SlashPositions(s) == {i \in 1..Len(s) : s[i] = "/"}

SegCount(s) == Cardinality(SlashPositions(s)) + 1

\* Position of the k-th `/` of s; 0 before the first segment and Len(s) + 1
\* after the last.
Cut(s, k) ==
    IF k = 0 THEN 0
    ELSE IF k = SegCount(s) THEN Len(s) + 1
    ELSE CHOOSE i \in SlashPositions(s) :
            Cardinality({j \in SlashPositions(s) : j <= i}) = k

Segment(s, k) == SubSeq(s, Cut(s, k - 1) + 1, Cut(s, k) - 1)

IsParamSegment(seg) == seg # <<>> /\ seg[1] = ":"

\* Same number of segments, and equal segments wherever the pattern's
\* segment does not start with `:`.
PathFits(pattern, path) ==
    /\ SegCount(pattern) = SegCount(path)
    /\ \A k \in 1..SegCount(pattern) :
          ~IsParamSegment(Segment(pattern, k))
            => Segment(pattern, k) = Segment(path, k)

AsciiUpperLetters ==
    {"A", "B", "C", "D", "E", "F", "G", "H", "I", "J", "K", "L", "M", "N",
     "O", "P", "Q", "R", "S", "T", "U", "V", "W", "X", "Y", "Z"}
AsciiLowerLetters ==
    {"a", "b", "c", "d", "e", "f", "g", "h", "i", "j", "k", "l", "m", "n",
     "o", "p", "q", "r", "s", "t", "u", "v", "w", "x", "y", "z"}
IsAscii(tok) == \A i \in 1..Len(tok) : tok[i] # "U+00DF"
IsAsciiUpper(tok) == \A i \in 1..Len(tok) : tok[i] \in AsciiUpperLetters

\* C9 as stated: for any letter-casing of the registered method token and
\* of the request method token, tokens equal ignoring ASCII case pass the
\* method check (so the route matches when the path fits) and tokens that
\* differ otherwise make the route skip.
C9_Original ==
    pc = "returned"
      => LET same == eq_ignore_ascii_case(routes[1].method, req.method)
         IN /\ (same /\ PathFits(routes[1].path, req.path)) => ret = TRUE
            /\ ~same => ret = FALSE

\* C9 amended: only the request's method is upper-cased before the
\* comparison.  For a route registered with an upper-case ASCII method token
\* (as Server::get .. Server::head register) and an ASCII request token in
\* any letter-casing, the method check passes when the tokens are equal
\* ignoring ASCII case and the route skips when they differ otherwise; a
\* route registered with a token that holds a lower-case ASCII letter never
\* matches.
C9_UpperCaseRouteMethod ==
    pc = "returned"
      => LET same == eq_ignore_ascii_case(routes[1].method, req.method)
         IN /\ (IsAsciiUpper(routes[1].method) /\ IsAscii(req.method))
                 => /\ (same /\ PathFits(routes[1].path, req.path)) => ret = TRUE
                    /\ ~same => ret = FALSE
            /\ (\E i \in 1..Len(routes[1].method) :
                   routes[1].method[i] \in AsciiLowerLetters) => ret = FALSE

\* C9 witness: a route registered as GET matched a request sent as "Get".
C9_Witness ==
    /\ pc = "returned"
    /\ routes[1].method = GET
    /\ req.method = <<"G", "e", "t">>
    /\ ret = TRUE

UsersId == <<"/", "u", "s", "e", "r", "s", "/", ":", "i", "d">>

\* C10: a route matches a request path only if both split on `/` into the
\* same number of segments and every pattern segment that does not start
\* with `:` equals, case-sensitively, the request segment at its position;
\* /users/:id matches none of /users, /users/1/2, /items/1; and a pattern
\* never matches itself followed by a trailing slash.
C10_PathMatchOnlyIfFits ==
    pc = "returned"
      => /\ ret = TRUE => PathFits(routes[1].path, req.path)
         /\ ( /\ routes[1].path = UsersId
              /\ req.path \in { <<"/", "u", "s", "e", "r", "s">>,
                                <<"/", "u", "s", "e", "r", "s", "/", "1", "/", "2">>,
                                <<"/", "i", "t", "e", "m", "s", "/", "1">> } )
              => ret = FALSE
         /\ req.path = routes[1].path \o <<"/">> => ret = FALSE

\* C10 witness: GET /users/:id matched GET /users/1.
C10_Witness ==
    /\ pc = "returned"
    /\ routes[1].path = UsersId
    /\ req.path = <<"/", "u", "s", "e", "r", "s", "/", "1">>
    /\ ret = TRUE


\* The name a `:name` pattern segment binds: the segment from its first
\* character that is not a colon on.
ParamName(seg) ==
    LET rest == {i \in 1..Len(seg) : seg[i] # ":"}
    IN IF rest = {} THEN <<>>
       ELSE SubSeq(seg, CHOOSE i \in rest : \A j \in rest : i <= j, Len(seg))

\* The positions of the pattern whose segment starts with `:` and whose
\* request segment is not empty.
BindingPositions(pattern, path) ==
    {k \in 1..SegCount(pattern) :
        /\ IsParamSegment(Segment(pattern, k))
        /\ Segment(path, k) # <<>>}

Users42 == <<"/", "u", "s", "e", "r", "s", "/", "4", "2">>
UsersSlash == <<"/", "u", "s", "e", "r", "s", "/">>

IsUnreadableFileStep ==
    /\ IsCallStep
    /\ LastCall.op = "html_file"
    /\ LastCall.path # "index.html"

\* C12 as stated: html_file with a path that cannot be read always leaves
\* the Response with status code 500 and sent = true, whatever the Response
\* state was before the call (sent or unsent).
C12_Original ==
    [][IsUnreadableFileStep => (res'.status_code = 500 /\ res'.sent)]_vars

\* C12 amended: on an unsent Response, html_file with a path that cannot be
\* read leaves status code 500, reason "Internal Server Error" and
\* sent = true, whatever status and headers were set before; on a Response
\* that is already sent the call is ignored and the status keeps its value.
C12_UnreadableFileOnUnsent ==
    [][IsUnreadableFileStep
         => IF res.sent THEN res' = res
            ELSE /\ res'.status_code = 500
                 /\ res'.status_reason = "Internal Server Error"
                 /\ res'.sent]_vars

\* C12 witness: a custom status and a header were set, then html_file was
\* called on a missing file: the status is 500 and the Response is sent.
C12_Witness ==
    /\ Len(calls) = 3
    /\ calls[1] = Call_status(StatusArg_CodeReason(599, "Network Timeout"))
    /\ calls[2].op = "set_header"
    /\ calls[3] = Call_html_file("missing_file.html")
    /\ res.status_code = 500
    /\ res.sent

\* C13: on an unsent Response, html_file with a path that cannot be read
\* performs one serialization: one header block whose status line is
\* `500 Internal Server Error`, in place of any status set earlier, with the
\* one Content-Type `text/html; charset=utf-8`, then the generated body and
\* a flush (fewer only if a stream operation failed); the call returns.
C13_UnreadableFileOneWrite ==
    [][(IsUnreadableFileStep /\ ~res.sent)
         => /\ stream = <<>>
            /\ Len(stream') \in 1..3
            /\ stream'[1].part = "head"
            /\ stream'[1].data[1] = <<"HTTP/1.1", "500", "Internal Server Error">>
            /\ LinesNamed(stream'[1].data, "Content-Type")
                 = << <<"Content-Type", "text/html; charset=utf-8">> >>
            /\ \A i \in 2..Len(stream') : stream'[i].part # "head"
            /\ Len(stream') >= 2
                 => /\ stream'[2].part = "body"
                    /\ stream'[2].data = BodyOfCall(LastCall)
            /\ Len(stream') = 3 => stream'[3].part = "flush"
            /\ (\A i \in 1..Len(stream') : stream'[i].ok) => Len(stream') = 3]_vars

\* C13 witness: status(Forbidden) was set, then html_file on a missing file
\* wrote one complete 500 response.
C13_Witness ==
    /\ Len(calls) = 2
    /\ calls[1] = Call_status(StatusArg_Enum("Forbidden"))
    /\ calls[2] = Call_html_file("missing_file.html")
    /\ Len(stream) = 3
    /\ \A i \in 1..3 : stream[i].ok
    /\ stream[1].data[1] = <<"HTTP/1.1", "500", "Internal Server Error">>
    /\ stream[2].data
         = "<h2>Internal Server Error</h2>\n<p>No file found on missing_file.html</p>"


(***************************************************************************)
(* Properties of Response::status (SpecResponse).                          *)
(***************************************************************************)
\* The step is a call of status.
IsStatusStep == IsCallStep /\ LastCall.op = "status"

\* C19: status sets (code, reason) from its argument alone: a named status
\* gives its numeric code and the table's reason of that code (Forbidden:
\* 403 "Forbidden"); a bare numeric code gives that code with the table's
\* reason (511: "Network Authentication Required"), an unrecognized code
\* such as 999 keeping the code with an empty reason; a (code, reason) pair
\* stores both as given.
C19_StatusFromArgument ==
    [][IsStatusStep
         => LET arg == LastCall.arg
            IN /\ arg.kind = "Enum"
                    => /\ res'.status_code = HttpStatus_code(arg.e)
                       /\ res'.status_reason
                            = HttpStatus_reason(HttpStatus_code(arg.e))
               /\ arg = StatusArg_Enum("Forbidden")
                    => (res'.status_code = 403 /\ res'.status_reason = "Forbidden")
               /\ arg.kind = "Code"
                    => /\ res'.status_code = arg.code
                       /\ res'.status_reason = HttpStatus_reason(arg.code)
               /\ arg = StatusArg_Code(511)
                    => res'.status_reason = "Network Authentication Required"
               /\ arg = StatusArg_Code(999)
                    => (res'.status_code = 999 /\ res'.status_reason = "")
               /\ arg.kind = "CodeReason"
                    => /\ res'.status_code = arg.code
                       /\ res'.status_reason = arg.reason]_vars

\* C19 witness: after a custom (code, reason) pair, status(999) was called:
\* the code is 999 and the reason is empty.
C19_Witness ==
    /\ Len(calls) = 2
    /\ calls[1] = Call_status(StatusArg_CodeReason(599, "Network Timeout"))
    /\ calls[2] = Call_status(StatusArg_Code(999))
    /\ res.status_code = 999
    /\ res.status_reason = ""

\* C20 as stated: after any sequence of status calls on an unsent Response,
\* every status field (the named-status field, the numeric code and the
\* reason) is what the last call alone produces on a fresh Response.
C20_StatusOverwritesEntirely ==
    (calls # <<>> /\ \A i \in 1..Len(calls) : calls[i].op = "status")
      => LET alone == Response_status(Response_new, calls[Len(calls)].arg)
         IN /\ res.status = alone.status
            /\ res.status_code = alone.status_code
            /\ res.status_reason = alone.status_reason


(***************************************************************************)
(* Properties of Request::new (SpecRequest, Spec).                         *)
(***************************************************************************)
\* The words of a line: its maximal runs of characters that are not
\* whitespace, counted and cut by position.
NonBlank(line) == {i \in 1..Len(line) : line[i] \notin {" ", "\t"}}

WordStarts(line) ==
    {i \in NonBlank(line) : i = 1 \/ (i - 1) \notin NonBlank(line)}

WordCount(line) == Cardinality(WordStarts(line))

Word(line, k) ==
    LET i == CHOOSE a \in WordStarts(line) :
                 Cardinality({b \in WordStarts(line) : b <= a}) = k
        j == CHOOSE e \in NonBlank(line) :
                 /\ e >= i
                 /\ \A x \in i..e : x \in NonBlank(line)
                 /\ (e + 1) \notin NonBlank(line)
    IN SubSeq(line, i, j)

\* The pieces of s between the occurrences of the character c.
PositionsOf(s, c) == {i \in 1..Len(s) : s[i] = c}

PieceCount(s, c) == Cardinality(PositionsOf(s, c)) + 1

CutAt(s, c, k) ==
    IF k = 0 THEN 0
    ELSE IF k = PieceCount(s, c) THEN Len(s) + 1
    ELSE CHOOSE i \in PositionsOf(s, c) :
            Cardinality({j \in PositionsOf(s, c) : j <= i}) = k

Piece(s, c, k) == SubSeq(s, CutAt(s, c, k - 1) + 1, CutAt(s, c, k) - 1)

\* The text of s before and after its first c (all of s, and nothing, when
\* s holds no c).
Before(s, c) == IF PositionsOf(s, c) = {} THEN s ELSE Piece(s, c, 1)

After(s, c) ==
    IF PositionsOf(s, c) = {} THEN <<>>
    ELSE SubSeq(s, CutAt(s, c, 1) + 1, Len(s))

\* C14 as stated: for a request line of exactly three whitespace-separated
\* tokens `METHOD PATH?QUERY VERSION`, Request::new yields method = METHOD,
\* path = PATH, version = VERSION and a query map with an entry for every
\* `&`-separated piece of QUERY, a piece without `=` being mapped to the
\* empty string.
C14_Original ==
    (pc = "built" /\ WordCount(wire.line) = 3
       /\ PositionsOf(Word(wire.line, 2), "?") # {})
      => LET target == Word(wire.line, 2)
             q == After(target, "?")
         IN /\ req.method = Word(wire.line, 1)
            /\ req.path = Before(target, "?")
            /\ req.version = Word(wire.line, 3)
            /\ \A k \in 1..PieceCount(q, "&") :
                  LET piece == Piece(q, "&", k)
                  IN /\ Before(piece, "=") \in DOMAIN req.query
                     /\ PositionsOf(piece, "=") = {} => req.query[piece] = <<>>

\* C14 amended: for a request line of exactly three whitespace-separated
\* tokens, Request::new yields method, path (the target up to its first
\* `?`) and version as sent, params empty, and a query map whose keys are
\* exactly the keys of the `&`-separated pieces of the query string (the
\* piece up to its first `=`), each mapped to the value of the last piece
\* with that key, the value of a piece without `=` being the empty string;
\* a target without `?` gives the empty query map.
C14_ParsedRequestLine ==
    (pc = "built" /\ WordCount(wire.line) = 3)
      => LET target == Word(wire.line, 2)
             q == After(target, "?")
             n == PieceCount(q, "&")
         IN /\ req.method = Word(wire.line, 1)
            /\ req.path = Before(target, "?")
            /\ req.version = Word(wire.line, 3)
            /\ PositionsOf(target, "?") = {} => req.query = EmptyMap
            /\ PositionsOf(target, "?") # {}
                 => /\ DOMAIN req.query
                         = {Before(Piece(q, "&", k), "=") : k \in 1..n}
                    /\ \A k \in 1..n :
                          (\A j \in (k + 1)..n :
                              Before(Piece(q, "&", j), "=")
                                # Before(Piece(q, "&", k), "="))
                            => req.query[Before(Piece(q, "&", k), "=")]
                                 = After(Piece(q, "&", k), "=")

\* C14 witness: `post /p?a=1&b=2&empty HTTP/1.0`, sent with runs of
\* whitespace, was parsed.
C14_Witness ==
    /\ pc = "built"
    /\ WordCount(wire.line) = 3
    /\ Len(wire.line) > 30
    /\ req.method = <<"p", "o", "s", "t">>
    /\ req.path = <<"/", "p">>
    /\ req.version = <<"H", "T", "T", "P", "/", "1", ".", "0">>
    /\ DOMAIN req.query = { <<"a">>, <<"b">>, <<"e", "m", "p", "t", "y">> }
    /\ req.query[<<"a">>] = <<"1">>
    /\ req.query[<<"e", "m", "p", "t", "y">>] = <<>>

\* The routes that match a GET / request: registered with GET and a
\* pattern that fits the path /.
RootRoutes ==
    {i \in 1..Len(routes) :
        routes[i].method = GET /\ PathFits(routes[i].path, <<"/">>)}

\* C15: a request line that does not split on whitespace into exactly three
\* tokens is not an error: Request::new yields method GET, path /, version
\* HTTP/1.1 and an empty query, and the request is dispatched like a GET /
\* request: the first route matching GET / has its handler run, and the
\* Router sends its 404 when there is none.
C15_DefaultRequestLine ==
    (pc = "done" /\ WordCount(wire.line) # 3)
      => /\ req.method = GET
         /\ req.path = <<"/">>
         /\ req.version = HTTP11
         /\ req.query = EmptyMap
         /\ req.params = EmptyMap
         /\ res.sent <=> calls # <<>>
         /\ IF RootRoutes = {}
            THEN invoked = <<>> /\ calls = NotFoundCalls /\ res.status_code = 404
            ELSE LET first == CHOOSE i \in RootRoutes : \A j \in RootRoutes : i <= j
                 IN /\ invoked = <<first>>
                    /\ calls = HandlerBody(routes[first].handler)

\* C15 witness: the two-token line `POST /a/b` was served by the handler
\* registered for GET /.
C15_Witness ==
    /\ pc = "done"
    /\ wire.line = <<"P", "O", "S", "T", " ", "/", "a", "/", "b">>
    /\ Len(routes) = 1
    /\ routes[1] = Route_new(GET, <<"/">>, "hello")
    /\ invoked = <<1>>
    /\ Len(stream) = 3
    /\ stream[1].data[1] = <<"HTTP/1.1", "200", "OK">>
    /\ stream[2].data = "Hello from rxpress!"


(***************************************************************************)
(* Properties of the accessors of Request (SpecRequest).                   *)
(***************************************************************************)
\* The upper-case and lower-case form of each ASCII letter.
CasePairs ==
    { <<"A", "a">>, <<"B", "b">>, <<"C", "c">>, <<"D", "d">>, <<"E", "e">>,
      <<"F", "f">>, <<"G", "g">>, <<"H", "h">>, <<"I", "i">>, <<"J", "j">>,
      <<"K", "k">>, <<"L", "l">>, <<"M", "m">>, <<"N", "n">>, <<"O", "o">>,
      <<"P", "p">>, <<"Q", "q">>, <<"R", "r">>, <<"S", "s">>, <<"T", "t">>,
      <<"U", "u">>, <<"V", "v">>, <<"W", "w">>, <<"X", "x">>, <<"Y", "y">>,
      <<"Z", "z">> }

\* Two texts are equal ignoring ASCII case.
SameIgnoringCase(s, t) ==
    /\ Len(s) = Len(t)
    /\ \A i \in 1..Len(s) :
          \/ s[i] = t[i]
          \/ <<s[i], t[i]>> \in CasePairs
          \/ <<t[i], s[i]>> \in CasePairs

\* The stored header keys that equal `key` ignoring ASCII case.
StoredLike(key) == {k \in DOMAIN req.headers : SameIgnoringCase(k, key)}

\* C16 as stated: header looks a header up case-insensitively: for every
\* stored key that equals the queried key ignoring ASCII case, header
\* returns the value stored under it, and it returns None when no stored
\* key equals the queried key ignoring case.
C16_HeaderCaseInsensitive ==
    (pc = "built" /\ ret # None /\ ret.op = "header")
      => /\ \A k \in StoredLike(ret.key) : ret.result = Some(req.headers[k])
         /\ StoredLike(ret.key) = {} => ret.result = None

\* C17 as stated: header_or and header_expect agree with header on whether
\* a header is present, under the case-insensitive lookup: header_or returns
\* the default, and header_expect an error value, exactly when no stored key
\* equals the queried key ignoring case; for a request read from the wire
\* with the header line `Authorization: X`, header_expect("Authorization")
\* returns X.
C17_AccessorsAgree ==
    (pc = "built" /\ ret # None)
      => /\ ret.op = "header_or"
              => (ret.result = ret.default <=> StoredLike(ret.key) = {})
         /\ ret.op = "header_expect"
              => (~ret.result.ok <=> StoredLike(ret.key) = {})
         /\ ( /\ ret.op = "header_expect"
              /\ ret.key = HdrAuthorization
              /\ "header_lines" \in DOMAIN wire
              /\ wire.header_lines
                   = << Line_Ok(HdrAuthorization \o <<":", " ", "X">>) >> )
              => ret.result = Ok(<<"X">>)

\* The step is a call of an accessor of the Request.
IsAccessorStep == pc = "built" /\ ret' # ret /\ ret' # None

\* The error value names the key: its text holds the key between grave
\* accents.
NamesKey(err, key) ==
    \E i \in 1..Len(err.msg) :
        /\ i + Len(key) + 1 <= Len(err.msg)
        /\ SubSeq(err.msg, i, i + Len(key) + 1)
             = <<Backtick>> \o key \o <<Backtick>>

\* C18: missing data never crashes an accessor.  param_expect, query_expect
\* and header_expect return an error value naming the key when the map
\* holds no entry under the key as written, and the stored value when it
\* holds one; param_or and query_or return the stored value when the key is
\* present and the supplied default otherwise; no accessor changes the
\* Request.
C18_AccessorsTotal ==
    /\ [](  (pc = "built" /\ ret # None)
            => LET map == CASE ret.op \in {"param", "param_or", "param_expect"}
                                 -> req.params
                            [] ret.op \in {"query", "query_or", "query_expect"}
                                 -> req.query
                            [] OTHER -> req.headers
                   present == ret.key \in DOMAIN map
               IN /\ ret.op \in {"param_expect", "query_expect", "header_expect"}
                       => IF present THEN ret.result = Ok(map[ret.key])
                          ELSE /\ ~ret.result.ok
                               /\ NamesKey(ret.result, ret.key)
                  /\ ret.op \in {"param_or", "query_or"}
                       => ret.result = IF present THEN map[ret.key]
                                       ELSE ret.default  )
    /\ [][IsAccessorStep => req' = req]_vars

\* C18 witness: on a Request with params {id: "42"}, param_expect was asked
\* for `username` and returned an error value naming it.
C18_Witness ==
    /\ pc = "built"
    /\ req.params = Insert(EmptyMap, <<"i", "d">>, <<"4", "2">>)
    /\ ret # None
    /\ ret.op = "param_expect"
    /\ ret.key = <<"u", "s", "e", "r", "n", "a", "m", "e">>
    /\ ~ret.result.ok
    /\ SubSeq(ret.result.msg, 3, 10) = ret.key


(***************************************************************************)
(* The header map of a Response (SpecResponse).                            *)
(***************************************************************************)
\* The write call number i makes to the header map, as <<key, value>>, or
\* <<>>: set_header writes its arguments, the first terminal call writes the
\* Content-Type of its category, every other call writes nothing.
HeaderWrite(i) ==
    LET call == calls[i]
    IN CASE call.op = "set_header" -> <<call.key, call.value>>
         [] IsTerminal(call) /\ (\A j \in 1..(i - 1) : ~IsTerminal(calls[j])) ->
              <<"Content-Type", ContentTypeOfCall(call)>>
         [] OTHER -> <<>>

WritesTo(key) ==
    {i \in 1..Len(calls) : HeaderWrite(i) # <<>> /\ HeaderWrite(i)[1] = key}

LastWriteTo(key) == CHOOSE i \in WritesTo(key) : \A j \in WritesTo(key) : j <= i

\* C21: set_header is an upsert with no case-folding.  After any sequence of
\* calls the header map holds the header a new Response starts with and, for
\* each distinct key string written, the value of the last write under
\* exactly that key; `Content-Type` and `content-type` are separate entries,
\* and one set_header call changes the entry of its own key only.
C21_SetHeaderUpsert ==
    /\ DOMAIN res.headers
         = {"HTTP-Server-Powered-By"} \cup {k \in HeaderKeys : WritesTo(k) # {}}
    /\ \A k \in DOMAIN res.headers :
          res.headers[k] = IF WritesTo(k) = {} THEN "rxpress"
                           ELSE HeaderWrite(LastWriteTo(k))[2]

\* C21 witness: `content-type` was set twice and `Content-Type` once; the map
\* holds the second value under the first key and the other under the second.
C21_Witness ==
    /\ calls = << Call_set_header("content-type", "image/png"),
                  Call_set_header("content-type", "text/css"),
                  Call_set_header("Content-Type", "image/png") >>
    /\ res.headers["content-type"] = "text/css"
    /\ res.headers["Content-Type"] = "image/png"
    /\ Cardinality(DOMAIN res.headers) = 3


\* The step is the first terminal call on the Response.
IsFirstTerminalStep == IsCallStep /\ IsTerminal(LastCall) /\ ~res.sent

\* C22: the first terminal call stores the Content-Type of its category under
\* the key `Content-Type`, whatever the handler stored under that key before:
\* text/plain for send, application/json for json, text/html; charset=utf-8
\* for html and html_file; the header block it writes carries that value in
\* its one `Content-Type` line, and entries under other keys keep their value.
C22_ContentTypeByCategory ==
    [][IsFirstTerminalStep
         => LET type == CASE LastCall.op = "send" -> "text/plain"
                          [] LastCall.op = "json" -> "application/json"
                          [] LastCall.op = "html" -> "text/html; charset=utf-8"
                          [] LastCall.op = "html_file" -> "text/html; charset=utf-8"
            IN /\ res'.headers = Insert(res.headers, "Content-Type", type)
               /\ Len(stream') >= 1
               /\ stream'[1].part = "head"
               /\ LinesNamed(stream'[1].data, "Content-Type")
                    = << <<"Content-Type", type>> >>]_vars

\* C22 witness: the handler stored image/png under Content-Type and text/css
\* under content-type, then called send: the block says text/plain under
\* Content-Type and still text/css under content-type.
C22_Witness ==
    /\ calls = << Call_set_header("Content-Type", "image/png"),
                  Call_set_header("content-type", "text/css"),
                  Call_send("hello") >>
    /\ res.headers["Content-Type"] = "text/plain"
    /\ Len(stream) = 3
    /\ LinesNamed(stream[1].data, "Content-Type")
         = << <<"Content-Type", "text/plain">> >>
    /\ LinesNamed(stream[1].data, "content-type")
         = << <<"content-type", "text/css">> >>


\* C23: what the first terminal call hands to the stream is, in this order,
\* the status line `HTTP/1.1 <code> <reason>` with the code and reason the
\* Response holds at that write, one `Key: Value` line for each entry of the
\* header map at that write (each key exactly once, in any order), the
\* Content-Length line with the length of the body, an empty line, and then,
\* as a second write, the body itself.
C23_SerializedForm ==
    [][IsFirstTerminalStep
         => LET block == stream'[1].data
                n == Cardinality(DOMAIN res'.headers)
            IN /\ stream'[1].part = "head"
               /\ Len(block) = n + 3
               /\ block[1] = <<"HTTP/1.1", ToString(res'.status_code),
                               res'.status_reason>>
               /\ {block[i] : i \in 2..(n + 1)}
                    = {<<k, res'.headers[k]>> : k \in DOMAIN res'.headers}
               /\ block[n + 2]
                    = <<"Content-Length", ToString(Len(BodyOfCall(LastCall)))>>
               /\ block[n + 3] = <<>>
               /\ Len(stream') >= 2
                    => /\ stream'[2].part = "body"
                       /\ stream'[2].data = BodyOfCall(LastCall)]_vars

\* C23 witness: after set_header, status(Forbidden) and json the stream holds
\* a block of six lines, `HTTP/1.1 403 Forbidden` first, the three headers,
\* `Content-Length: 12` and the empty line, followed by the twelve-byte body.
C23_Witness ==
    /\ calls = << Call_set_header("X-Custom", "1234"),
                  Call_status(StatusArg_Enum("Forbidden")),
                  Call_json("{\"msg\":\"ok\"}") >>
    /\ Len(stream) = 3
    /\ Len(stream[1].data) = 6
    /\ stream[1].data[1] = <<"HTTP/1.1", "403", "Forbidden">>
    /\ stream[1].data[2] = <<"X-Custom", "1234">>
    /\ stream[1].data[5] = <<"Content-Length", "12">>
    /\ stream[1].data[6] = <<>>
    /\ stream[2].data = "{\"msg\":\"ok\"}"


\* C24: the stream operations of a Response are, in this order, the write of
\* the header block, the write of the body and the flush.  Each can fail; an
\* operation is attempted only if every operation before it succeeded, so a
\* failed header write is followed by nothing and a failed body write by no
\* flush, and no operation appears twice, whatever calls follow.
C24_WriteOrderAndFailure ==
    /\ Len(stream) <= 3
    /\ \A i \in 1..Len(stream) :
          /\ stream[i].part = <<"head", "body", "flush">>[i]
          /\ stream[i].op = <<"write_all", "write_all", "flush">>[i]
          /\ i < Len(stream) => stream[i].ok
    /\ (res.sent /\ Len(stream) < 3)
          => (Len(stream) >= 1 /\ ~stream[Len(stream)].ok)
    /\ res.sent <=> stream # <<>>

\* C24 witness: the body write of send failed; the stream saw the header
\* block and the body and no flush, and the two terminal calls made
\* afterwards reached the stream with nothing.
C24_Witness ==
    /\ Len(calls) = 3
    /\ calls[1].op = "send"
    /\ calls[2].op = "json"
    /\ calls[3].op = "html_file"
    /\ Len(stream) = 2
    /\ stream[1].ok
    /\ ~stream[2].ok
    /\ stream[2].part = "body"


(***************************************************************************)
(* Properties of the connection handler (SpecServe).                       *)
(***************************************************************************)
\* The step reads the request line and the iterator has no line to give:
\* the client disconnected, or the read fails.
RequestLineUnreadable ==
    pc = "request_line" /\ (wire.lines = <<>> \/ ~wire.lines[1].ok)

\* The step reads the body and the stream ends or fails before the bytes
\* the content-length header announces.
BodyReadFails ==
    /\ pc = "body"
    /\ ContentLengthKey \in DOMAIN conn.headers
    /\ parse_usize(conn.headers[ContentLengthKey]).ok
    /\ parse_usize(conn.headers[ContentLengthKey]).value > Len(Unread(wire))

\* Nothing of a request or a response exists for the connection.
NothingServed ==
    /\ req = None
    /\ res = None
    /\ stream = <<>>
    /\ invoked = <<>>
    /\ calls = <<>>

\* C25: when the request line cannot be read (the client disconnected or
\* the read fails), or the body read fails after the headers were parsed,
\* handle_connection returns at that step: no Request is constructed, no
\* route is tried, no handler runs, nothing is written to the stream, and
\* the loop is back at accepting.
C25_UnreadableRequestDropped ==
    [][(RequestLineUnreadable \/ BodyReadFails)
         => /\ pc' = "accept"
            /\ NothingServed'
            /\ Len(log') = Len(log) + 1
            /\ ~log'[Len(log')].ok
            /\ log'[Len(log')].step = pc]_vars

\* C25 witness: the first connection was closed before a request line came,
\* the second announced more body bytes than it sent; both were dropped with
\* nothing served.
C25_Witness ==
    /\ pc = "accept"
    /\ Len(log) = 6
    /\ log[2] = Step(1, FALSE, "request_line")
    /\ log[5] = Step(2, TRUE, "headers")
    /\ log[6] = Step(2, FALSE, "body")
    /\ ContentLengthKey \in DOMAIN conn.headers
    /\ NothingServed


\* C26: a read failure before the request is fully parsed drops the
\* connection with no response attempted.  In particular, when the read
\* error occurs while the header lines are being read, after a good request
\* line, that connection sees no dispatch and no write to its stream.
C26_HeaderReadErrorDropsConnection ==
    \A i \in 1..Len(log) :
       (log[i].step = "headers" /\ ~log[i].ok)
          => \A j \in 1..Len(log) :
                log[j].conn = log[i].conn => log[j].step \notin {"dispatch", "write"}


\* s without the blanks at its two ends.
Trimmed(s) ==
    IF NonBlank(s) = {} THEN <<>>
    ELSE SubSeq(s, CHOOSE i \in NonBlank(s) : \A j \in NonBlank(s) : i <= j,
                   CHOOSE i \in NonBlank(s) : \A j \in NonBlank(s) : j <= i)

\* The first of the positions `stops` of a list of n items, or n + 1.
FirstOf(stops, n) ==
    IF stops = {} THEN n + 1 ELSE CHOOSE i \in stops : \A j \in stops : i <= j

\* The header map the lines before position `end` stand for: each line with
\* a `:` gives the key before its first `:`, trimmed and lower-cased, and
\* the value after it, trimmed; the last line of a key gives its value.
HeadersOf(lines, end) ==
    LET idx == {i \in 1..(end - 1) : lines[i].ok /\ PositionsOf(lines[i].line, ":") # {}}
        keyOf(i) == to_ascii_lowercase(Trimmed(Before(lines[i].line, ":")))
        valOf(i) == Trimmed(After(lines[i].line, ":"))
    IN [k \in {keyOf(i) : i \in idx} |->
          valOf(CHOOSE i \in idx : keyOf(i) = k /\ \A j \in idx : keyOf(j) = k => j <= i)]

\* What the ReadHeaders step leaves when the header lines end at `end`.
HeadersReadTo(end) ==
    /\ conn'.headers = HeadersOf(wire.lines, end)
    /\ wire'.lines = SubSeq(wire.lines, end + 1, Len(wire.lines))
    /\ \A k \in DOMAIN conn'.headers :
          \A i \in 1..Len(k) : k[i] \notin AsciiUpperLetters
    /\ pc' = "body"

HasBodyLength ==
    /\ ContentLengthKey \in DOMAIN conn.headers
    /\ parse_usize(conn.headers[ContentLengthKey]).ok

BodyLength == parse_usize(conn.headers[ContentLengthKey]).value

\* C28 as stated: the body is read only when a content-length header is
\* present and parses as a non-negative integer n, and then exactly n bytes
\* are consumed; otherwise the body is empty, nothing is consumed, and the
\* request is still constructed and dispatched.
C28_Original ==
    [][pc = "body"
         => IF HasBodyLength
            THEN Len(Unread(wire')) = Len(Unread(wire)) - BodyLength
            ELSE /\ wire' = wire
                 /\ conn'.body = <<>>
                 /\ pc' = "dispatch"]_vars

\* C28 amended: a read is made only when a content-length header is present
\* and parses as a non-negative integer n, and it asks for exactly n bytes.
\* If the stream delivers them, they are the body (invalid UTF-8 replaced),
\* exactly n bytes are consumed and the request goes on to dispatch; if the
\* stream ends before, the read fails and the connection is dropped.  When
\* the header is absent or does not parse (negative, non-numeric, empty, too
\* large for usize), the body is the empty string, nothing is consumed, and
\* the request goes on to dispatch.
C28_BodyByContentLength ==
    [][pc = "body"
         => IF HasBodyLength /\ BodyLength <= Len(Unread(wire))
            THEN /\ Len(conn'.body) = BodyLength
                 /\ conn'.body = from_utf8_lossy(SubSeq(Unread(wire), 1, BodyLength))
                 /\ Unread(wire')
                      = SubSeq(Unread(wire), BodyLength + 1, Len(Unread(wire)))
                 /\ pc' = "dispatch"
            ELSE IF HasBodyLength
            THEN /\ ~ret'.ok
                 /\ conn' = conn
                 /\ pc' = "accept"
            ELSE /\ wire' = wire
                 /\ conn'.body = <<>>
                 /\ pc' = "dispatch"]_vars

\* C28 witness: `Content-Length: 3` before five bytes: the body is the first
\* three, two bytes stay unread, and the request was dispatched.
C28_Witness ==
    /\ pc = "accept"
    /\ req # None
    /\ req.body = <<"a", "U+FFFD", "c">>
    /\ wire.bytes = <<"d", "e">>
    /\ log[Len(log)].step = "write"


\* The steps the log holds for connection k, oldest first.
StepsOf(k) == SelectSeq(log, LAMBDA s : s.conn = k)

\* The order of the steps of one connection.
StepOrder == <<"accept", "request_line", "headers", "body", "dispatch", "write">>

\* Connection k has run to its end: its accept failed, handle_connection
\* returned at a failed read, or the dispatch (with the handler's writes) is
\* done.
Completed(k) ==
    LET s == StepsOf(k)
        last == s[Len(s)]
    IN \/ last.step \in {"accept", "request_line", "body"} /\ ~last.ok
       \/ last.step = "write"
       \/ last.step = "dispatch"

\* C29: the server is synchronous.  The steps of the connections never
\* interleave: every step of connection k is logged before connection k + 1
\* is accepted, and connection k has then run to its end.  Within one
\* connection the steps come in the order accept, request line, headers,
\* body, dispatch, response write, each at most once.  A failed accept is
\* logged as the only step of its connection and the loop is ready for the
\* next one.
C29_Synchronous ==
    /\ \A i, j \in 1..Len(log) : i < j => log[i].conn <= log[j].conn
    /\ \A k \in 1..Accepted :
          /\ Len(StepsOf(k)) <= Len(StepOrder)
          /\ \A n \in 1..Len(StepsOf(k)) : StepsOf(k)[n].step = StepOrder[n]
          /\ k < Accepted => Completed(k)
          /\ ~StepsOf(k)[1].ok => Len(StepsOf(k)) = 1
    /\ (log # <<>> /\ Completed(Accepted)) <=> (log # <<>> /\ pc = "accept")

\* C29 witness: the accept of the first connection failed; the second was
\* read, dispatched and answered, and the loop is back at accepting.
C29_Witness ==
    /\ pc = "accept"
    /\ Len(log) = 7
    /\ log[1] = Step(1, FALSE, "accept")
    /\ \A n \in 1..6 : log[n + 1].conn = 2 /\ log[n + 1].step = StepOrder[n]
    /\ Len(stream) = 3


(***************************************************************************)
(* The route list (Spec).                                                  *)
(***************************************************************************)
\* C30: the route list is append-only and read-only during dispatch.  A new
\* Router has no route; a step either leaves the list as it is or is one
\* add_route, which appends exactly one route (the method, pattern and
\* handler it was given) after the routes there were and leaves those and
\* their order unchanged; no step removes or reorders routes; the step that
\* serves a connection, Router::handle included, leaves the list unchanged.
C30_RoutesAppendOnly ==
    /\ routes = <<>>
    /\ [][/\ \/ routes' = routes
             \/ /\ Len(routes') = Len(routes) + 1
                /\ SubSeq(routes', 1, Len(routes)) = routes
                /\ routes'[Len(routes')].method \in ServerMethods
                /\ routes'[Len(routes')].path \in ServerPatterns
                /\ routes'[Len(routes')].handler \in Handlers
                /\ pc = "setup"
          /\ pc = "running" => routes' = routes]_vars

\* C30 witness: the same method and pattern were registered twice, with two
\* handlers; both routes are there in that order after a connection was
\* served by the first.
C30_Witness ==
    /\ pc = "done"
    /\ Len(routes) = 2
    /\ routes[1].method = routes[2].method
    /\ routes[1].path = routes[2].path
    /\ routes[1].handler = "hello"
    /\ routes[2].handler = "error_enum"
    /\ invoked = <<1>>


(***************************************************************************)
(* The name a pattern segment binds (SpecMatch).                           *)
(***************************************************************************)
\* C31: when a route matches, every pattern segment that starts with `:`
\* and whose request segment is not empty binds, as the parameter name, the
\* segment's suffix after that one leading `:` (the segment `::id` binds
\* the name `:id`, the segment `:` the empty name).
C31_NameIsSuffixAfterOneColon ==
    (pc = "returned" /\ ret = TRUE)
      => \A k \in BindingPositions(routes[1].path, req.path) :
            Tail(Segment(routes[1].path, k)) \in DOMAIN req.params


(***************************************************************************)
(* The cuts of the raw target (SpecRequest).                               *)
(***************************************************************************)
\* C32: for a request line of three tokens, the target is cut at its first
\* `?` only: path holds no `?`, and target = path ? query-string, where the
\* query string keeps every later `?`.  Each `&`-separated piece of the
\* query string is cut at its first `=` only: no key holds a `=`, every piece
\* is `key` or `key=value` for a key of the map, and the map gives each key
\* the value of the last piece with that key (the empty string when that
\* piece is the bare key).  A target without `?` is the path and gives the
\* empty query map.  /p?x?y=1 gives x?y = "1"; /p?a=b=c gives a = "b=c";
\* /p?a=1&a gives a = "".
C32_FirstSeparatorOnly ==
    (pc = "built" /\ WordCount(wire.line) = 3)
      => LET target == Word(wire.line, 2)
             q == SubSeq(target, Len(req.path) + 2, Len(target))
             n == PieceCount(q, "&")
             HasKey(piece, key) ==
                 \/ piece = key
                 \/ /\ Len(piece) > Len(key)
                    /\ SubSeq(piece, 1, Len(key)) = key
                    /\ piece[Len(key) + 1] = "="
             ValueOf(piece, key) == SubSeq(piece, Len(key) + 2, Len(piece))
         IN /\ PositionsOf(req.path, "?") = {}
            /\ PositionsOf(target, "?") = {}
                 => (req.path = target /\ req.query = EmptyMap)
            /\ PositionsOf(target, "?") # {}
                 => /\ target = req.path \o <<"?">> \o q
                    /\ \A key \in DOMAIN req.query :
                          /\ PositionsOf(key, "=") = {}
                          /\ \E k \in 1..n :
                                /\ HasKey(Piece(q, "&", k), key)
                                /\ \A j \in (k + 1)..n :
                                      ~HasKey(Piece(q, "&", j), key)
                                /\ req.query[key]
                                     = ValueOf(Piece(q, "&", k), key)
                    /\ \A k \in 1..n :
                          \E key \in DOMAIN req.query :
                             HasKey(Piece(q, "&", k), key)
            /\ target = <<"/", "p", "?", "x", "?", "y", "=", "1">>
                 => req.query = Insert(EmptyMap, <<"x", "?", "y">>, <<"1">>)
            /\ target = <<"/", "p", "?", "a", "=", "b", "=", "c">>
                 => req.query = Insert(EmptyMap, <<"a">>, <<"b", "=", "c">>)
            /\ target = <<"/", "p", "?", "a", "=", "1", "&", "a">>
                 => req.query = Insert(EmptyMap, <<"a">>, <<>>)

\* C32 witness: the target /p?x?y=1 was cut at its first `?`, the piece
\* x?y=1 at its `=`.
C32_Witness ==
    /\ pc = "built"
    /\ WordCount(wire.line) = 3
    /\ Word(wire.line, 2) = <<"/", "p", "?", "x", "?", "y", "=", "1">>
    /\ req.path = <<"/", "p">>
    /\ req.query = Insert(EmptyMap, <<"x", "?", "y">>, <<"1">>)


(***************************************************************************)
(* What dispatch leaves of the Request (Spec).                             *)
(***************************************************************************)
\* C33: after Router::handle, whatever routes are registered and whether a
\* route matched or not, the Request has the method, path, query, headers,
\* version and body that Request::new gave it: apart from params it is the
\* Request as constructed.
C33_OnlyParamsChange ==
    pc = "done"
      => LET built == Request_new(wire.line, get_headers(wire.header_lines), "")
         IN /\ req.method = built.method
            /\ req.path = built.path
            /\ req.query = built.query
            /\ req.headers = built.headers
            /\ req.version = built.version
            /\ req.body = built.body
            /\ built.params = EmptyMap

\* C33 witness: `get /a/b HTTP/1.1` went past a route that does not match
\* and was dispatched to the second route, which bound a parameter; the
\* method is still in lower case.
C33_Witness ==
    /\ pc = "done"
    /\ invoked = <<2>>
    /\ req.params # EmptyMap
    /\ req.method = <<"g", "e", "t">>
    /\ req.path = <<"/", "a", "/", "b">>


(***************************************************************************)
(* Routes registered through the verb functions of Server (Spec).          *)
(***************************************************************************)
\* C34: every route registered through a verb function of Server is stored
\* with its method token in upper case, and each registration appends to
\* the one list of the Router, whatever the verb.  Hence, on dispatch, the
\* routes that match are those whose verb is the request's method in any
\* letter case and whose pattern fits the path, and the handler that runs
\* is that of the first of them in the order of the registration calls.
C34_VerbRoutes ==
    /\ [](\A i \in 1..Len(routes) : IsAsciiUpper(routes[i].method))
    /\ [][routes' # routes
            => /\ Len(routes') = Len(routes) + 1
               /\ SubSeq(routes', 1, Len(routes)) = routes]_vars
    /\ [](pc = "done"
            => LET fits == {i \in 1..Len(routes) :
                              /\ eq_ignore_ascii_case(routes[i].method, req.method)
                              /\ PathFits(routes[i].path, req.path)}
               IN /\ fits # {}
                      => \E i \in fits : /\ \A j \in fits : i <= j
                                         /\ invoked = <<i>>
                  /\ fits = {} => invoked = <<>>)

\* C34 witness: post and get were registered in this order on patterns that
\* both fit /a/b; the request `Post /a/b` ran the first handler, and the
\* second route, registered through another verb, was not tried.
C34_Witness ==
    /\ pc = "done"
    /\ Len(routes) = 2
    /\ routes[1].method = POST
    /\ routes[2].method = GET
    /\ routes[1].path = <<"/", "a", "/", ":", "x">>
    /\ routes[2].path = <<"/", ":", "y", "/", "b">>
    /\ req.method = <<"P", "o", "s", "t">>
    /\ invoked = <<1>>
    /\ DOMAIN req.params = { <<"x">> }


(***************************************************************************)
(* The Content-Length lines of a response (SpecResponse).                  *)
(***************************************************************************)
\* C35: every header block handed to the stream holds exactly one line
\* named Content-Length, the one write_response computes from the body of
\* the first terminal call, whatever headers were set before that call, a
\* header named Content-Length included.
C35_OneContentLength ==
    stream # <<>>
      => LinesNamed(stream[1].data, "Content-Length")
           = << <<"Content-Length", ToString(Len(BodyOfCall(TerminalCalls[1])))>> >>


(***************************************************************************)
(* The response of a matched route (Spec).                                 *)
(***************************************************************************)
\* C36: when a route matched, the calls made on the Response are those of
\* its handler and no other: the stream holds at most one header block and
\* one body, both of the handler's first terminal call, and after a handler
\* that makes no terminal call the stream is empty and `sent` is false.
C36_OnlyTheHandlerResponds ==
    (pc = "done" /\ invoked # <<>>)
      => LET own == SelectSeq(HandlerBody(routes[invoked[1]].handler), IsTerminal)
         IN /\ calls = HandlerBody(routes[invoked[1]].handler)
            /\ Len(StreamPart("head")) <= 1
            /\ Len(StreamPart("body")) <= 1
            /\ own = <<>> => (stream = <<>> /\ ~res.sent)
            /\ own # <<>>
                 => /\ res.sent
                    /\ Len(StreamPart("head")) = 1
                    /\ \A i \in 1..Len(stream) :
                          stream[i].part = "body"
                            => stream[i].data = BodyOfCall(own[1])

\* C36 witness: a request matched a route whose handler makes no terminal
\* call, with a second route registered behind it: nothing was written.
C36_Witness ==
    /\ pc = "done"
    /\ Len(routes) = 2
    /\ invoked = <<1>>
    /\ routes[1].handler = "dummy_handler"
    /\ FittingRoutes = {1, 2}
    /\ stream = <<>>
    /\ ~res.sent
    /\ res.status_code = 200


(***************************************************************************)
(* A finalization that fails (SpecResponse).                               *)
(***************************************************************************)
\* C37: a terminal call on an unsent Response leaves `sent` true whether
\* its header write, body write or flush failed or not; and once a stream
\* operation has failed, `sent` stays true and no later call, terminal or
\* not, hands anything more to the stream: the failed write is not repeated
\* and no second one is attempted.
C37_FailedWriteStillSent ==
    [][IsCallStep
         => /\ (~res.sent /\ IsTerminal(LastCall))
                 => (res'.sent /\ stream' # <<>>)
            /\ (\E i \in 1..Len(stream') : ~stream'[i].ok) => res'.sent
            /\ (\E i \in 1..Len(stream) : ~stream[i].ok)
                 => (stream' = stream /\ res.sent)]_vars

\* C37 witness: the header write of send failed, and the json and html calls
\* made afterwards left the stream with that one failed write.
C37_Witness ==
    /\ Len(calls) = 3
    /\ calls[1].op = "send"
    /\ calls[2].op = "json"
    /\ calls[3].op = "html"
    /\ Len(stream) = 1
    /\ stream[1].part = "head"
    /\ ~stream[1].ok
    /\ res.sent


(***************************************************************************)
(* What a new Response starts with (SpecResponse).                         *)
(***************************************************************************)
\* C38 as stated: before any call a Response is unsent, with status code
\* 200, reason `OK` and the one header HTTP-Server-Powered-By: rxpress; a
\* header block written by a handler that only calls a terminal operation
\* starts with the status line `HTTP/1.1 200 OK`; and every header block
\* holds an HTTP-Server-Powered-By line, with the value `rxpress` unless
\* set_header was called with exactly that key.
C38_Original ==
    /\ calls = <<>>
         => /\ ~res.sent
            /\ res.status_code = 200
            /\ res.status_reason = "OK"
            /\ res.headers = [k \in {"HTTP-Server-Powered-By"} |-> "rxpress"]
    /\ stream # <<>>
         => /\ IsTerminal(calls[1])
                 => stream[1].data[1] = <<"HTTP/1.1", "200", "OK">>
            /\ LinesNamed(stream[1].data, "HTTP-Server-Powered-By") # <<>>

\* C38 amended: before any call a Response is unsent, with status code 200,
\* reason `OK` and the one header HTTP-Server-Powered-By: rxpress.  A header
\* block written with no status call before the first terminal call starts
\* with the status line `HTTP/1.1 200 OK`, except when that call is
\* html_file on a file that cannot be read: then it starts with
\* `HTTP/1.1 500 Internal Server Error`.  Every header block holds exactly
\* one HTTP-Server-Powered-By line, and its value is `rxpress` unless
\* set_header was called with exactly that key before the block was written.
C38_NewResponseDefaults ==
    /\ calls = <<>>
         => /\ ~res.sent
            /\ res.status_code = 200
            /\ res.status_reason = "OK"
            /\ res.headers = [k \in {"HTTP-Server-Powered-By"} |-> "rxpress"]
            /\ stream = <<>>
    /\ stream # <<>>
         => LET first == CHOOSE i \in 1..Len(calls) :
                            /\ IsTerminal(calls[i])
                            /\ \A j \in 1..(i - 1) : ~IsTerminal(calls[j])
                before == SubSeq(calls, 1, first - 1)
                unreadable == /\ calls[first].op = "html_file"
                              /\ ~fs_read_to_string(calls[first].path).ok
                named == LinesNamed(stream[1].data, "HTTP-Server-Powered-By")
            IN /\ (~unreadable /\ \A j \in 1..Len(before) : before[j].op # "status")
                    => stream[1].data[1] = <<"HTTP/1.1", "200", "OK">>
               /\ unreadable
                    => stream[1].data[1]
                         = <<"HTTP/1.1", "500", "Internal Server Error">>
               /\ Len(named) = 1
               /\ (\A j \in 1..Len(before) :
                      ~(/\ before[j].op = "set_header"
                        /\ before[j].key = "HTTP-Server-Powered-By"))
                    => named[1][2] = "rxpress"

\* C38 witness: a handler that only calls send: the block starts with
\* `HTTP/1.1 200 OK` and carries HTTP-Server-Powered-By: rxpress.
C38_Witness ==
    /\ calls = << Call_send("hello") >>
    /\ Len(stream) = 3
    /\ stream[1].data[1] = <<"HTTP/1.1", "200", "OK">>
    /\ LinesNamed(stream[1].data, "HTTP-Server-Powered-By")
         = << <<"HTTP-Server-Powered-By", "rxpress">> >>
    /\ res.sent


(***************************************************************************)
(* Dispatch depends on method and path only (Spec).                        *)
(***************************************************************************)
\* Requests that agree with rq on method and path, with params empty as at
\* construction: one with a query, one with a header, one with another
\* version, one with a body, and one with all four.
AgreeingRequests(rq) ==
    LET plain == NewRequest(rq.method, rq.path)
        q == Insert(EmptyMap, <<"x">>, <<"2">>)
        h == Insert(EmptyMap, <<"h", "o", "s", "t">>, <<"x">>)
        v == <<"H", "T", "T", "P", "/", "1", ".", "0">>
    IN { [plain EXCEPT !.query = q],
         [plain EXCEPT !.headers = h],
         [plain EXCEPT !.version = v],
         [plain EXCEPT !.body = "abc"],
         [plain EXCEPT !.query = q, !.headers = h, !.version = v, !.body = "abc"] }

\* C39: a second run of the route loop of Router::handle on the same
\* routes, with a request that agrees with the dispatched one on method and
\* path and differs from it in query, headers, version or body, invokes the
\* same handler, or likewise falls through to the Router's 404, and leaves
\* the same params.
C39_DispatchDeterministic ==
    pc = "done"
      => \A other \in AgreeingRequests(req) :
            LET scan == Scan(routes, 1, other)
            IN /\ scan.invoked = invoked
               /\ scan.fell_through = RouterFinalized
               /\ scan.req.params = req.params

\* C39 witness: `GET /a/b?q=1` was dispatched to the second route, which
\* bound a parameter; a request for /a/b with another query, a header, a
\* body and HTTP/1.0 is among those compared with it.
C39_Witness ==
    /\ pc = "done"
    /\ req.query = Insert(EmptyMap, <<"q">>, <<"1">>)
    /\ invoked = <<2>>
    /\ req.params # EmptyMap
    /\ \E other \in AgreeingRequests(req) :
          /\ other.query # req.query
          /\ other.version # req.version
          /\ other.headers # req.headers
          /\ other.body # req.body

=========================================================================
